---- MODULE Spec2Model ----
(***************************************************************************)
(* A model of helmhound's value/path engine (pkg/helmwrap) and of its      *)
(* structural differ (pkg/yamldiff).                                       *)
(*                                                                         *)
(* Go strings are sequences of one-character strings, so that splitting,  *)
(* joining and scanning a path are computed the way the code computes     *)
(* them.  A decoded YAML value (interface{}) is a tagged record.           *)
(***************************************************************************)
EXTENDS Integers, Sequences, FiniteSets, TLC

VARIABLES
    \* pkg/helmwrap: the heap of maps and arrays, the caller's values tree,
    \* the call made on it and what it returned.
    heap, values, vpc, vop, verr, vres, vtype, extracted, before, resSnap,
    \* pkg/yamldiff: the two trees compared, the call made and its result.
    left, right, dop, diffs, diffPaths, grouped, groupedDetailed,
    \* the template scanner: the files searched, the target path, the call
    \* made, the references found and their formatted text.
    scanTemplates, scanPath, sop, scanRefs, scanPanic, scanText,
    \* the renderer: the manifest texts of the two releases, the step
    \* reached, the two manifest maps and their comparison.
    manifestText, modifiedText, rop, originalManifest, modifiedManifest, groupedDiffs,
    \* the chart cache: the directories under ~/.helmhound, cache.yaml, and
    \* for each running process its DownloadChart call; the calls that have
    \* succeeded so far.
    chartFs, cacheYaml, dcall, ncalls, succeeded

hvars == <<heap, values, vpc, vop, verr, vres, vtype, extracted, before, resSnap>>
dvars == <<left, right, dop, diffs, diffPaths, grouped, groupedDetailed>>
svars == <<scanTemplates, scanPath, sop, scanRefs, scanPanic, scanText>>
rvars == <<manifestText, modifiedText, rop, originalManifest, modifiedManifest, groupedDiffs>>
cvars == <<chartFs, cacheYaml, dcall, ncalls, succeeded>>
vars == <<hvars, dvars, svars, rvars, cvars>>

-----------------------------------------------------------------------------
(* Strings *)

\* The keys and scalar strings the inputs are drawn from.
sA == <<"a">>
sB == <<"b">>
sX == <<"x">>
sADotB == <<"a", ".", "b">>
sAIdx0 == <<"a", "[", "0", "]">>
sEmpty == <<>>

\* strconv.Itoa for a non-negative index.
DigitChars == <<"0", "1", "2", "3", "4", "5", "6", "7", "8", "9">>

RECURSIVE Itoa(_)
Itoa(n) == IF n < 10 THEN <<DigitChars[n + 1]>>
           ELSE Itoa(n \div 10) \o <<DigitChars[(n % 10) + 1]>>

-----------------------------------------------------------------------------
(* Values: what yaml.Unmarshal puts into an interface{} *)

Nil == [tag |-> "nil"]
StrV(s) == [tag |-> "string", s |-> s]
IntV(n) == [tag |-> "int", i |-> n]
\* A float64 holding h/2, or NaN.
FloatV(h) == [tag |-> "float64", nan |-> FALSE, h |-> h]
NaN == [tag |-> "float64", nan |-> TRUE, h |-> 0]
BoolV(b) == [tag |-> "bool", b |-> b]
\* map[string]interface{}: a function from keys to values.
MapV(f) == [tag |-> "map", m |-> f]
\* []interface{}: a sequence of values.
SliceV(q) == [tag |-> "slice", q |-> q]

EmptyMap == MapV(<<>>)
Map1(k, v) == MapV([x \in {k} |-> v])

\* reflect.TypeOf of a non-nil interface value.
TypeOf(v) == v.tag

\* reflect.DeepEqual on two values of the same primitive type: floats are
\* compared with ==, under which NaN differs from itself.
DeepEqual(x, y) ==
    IF x.tag = "float64" /\ y.tag = "float64"
    THEN ~x.nan /\ ~y.nan /\ x.h = y.h
    ELSE x = y

-----------------------------------------------------------------------------
(* The heap: Go maps and slices are references *)

\* On the heap a map or slice value is a reference [tag, a] to an object, a
\* map object holding its entries and an array object the slice's elements.
\* The heap is the sequence of the objects allocated so far.
MapRef(a) == [tag |-> "map", a |-> a]
SliceRef(a) == [tag |-> "slice", a |-> a]
MapObj(f) == [kind |-> "map", m |-> f]
ArrayObj(q) == [kind |-> "array", q |-> q]

IsRef(v) == v.tag \in {"map", "slice"}

\* make(...): a new object at a fresh address.
Alloc(h, obj) == [h |-> Append(h, obj), a |-> Len(h) + 1]

\* m[key] = v
SetKey(h, a, key, v) ==
    [h EXCEPT ![a] = MapObj([k \in DOMAIN h[a].m \cup {key} |->
                                IF k = key THEN v ELSE h[a].m[k]])]

\* s[i] = v, i 0-based
SetIndex(h, a, i, v) ==
    [h EXCEPT ![a] = ArrayObj([n \in 1..Len(h[a].q) |->
                                  IF n = i + 1 THEN v ELSE h[a].q[n]])]

\* The tree a heap value stands for.
RECURSIVE Deref(_, _)
Deref(h, v) ==
    IF v.tag = "map" THEN MapV([k \in DOMAIN h[v.a].m |-> Deref(h, h[v.a].m[k])])
    ELSE IF v.tag = "slice" THEN SliceV([n \in 1..Len(h[v.a].q) |-> Deref(h, h[v.a].q[n])])
    ELSE v

\* The objects a heap value reaches.
RECURSIVE Reach(_, _)
Reach(h, v) ==
    IF v.tag = "map" THEN {v.a} \cup UNION { Reach(h, h[v.a].m[k]) : k \in DOMAIN h[v.a].m }
    ELSE IF v.tag = "slice"
    THEN {v.a} \cup UNION { Reach(h, h[v.a].q[n]) : n \in 1..Len(h[v.a].q) }
    ELSE {}

\* A tree laid out on the heap, as yaml.Unmarshal or a literal builds it:
\* every map and slice an object of its own.
RECURSIVE Build(_, _)
RECURSIVE BuildMapLoop(_, _, _, _)
RECURSIVE BuildSliceLoop(_, _, _, _)

BuildMapLoop(h, a, f, todo) ==
    IF todo = {} THEN h
    ELSE LET key == CHOOSE k \in todo : TRUE
             b == Build(h, f[key])
         IN BuildMapLoop(SetKey(b.h, a, key, b.v), a, f, todo \ {key})

BuildSliceLoop(h, a, q, n) ==
    IF n > Len(q) THEN h
    ELSE LET b == Build(h, q[n])
         IN BuildSliceLoop(SetIndex(b.h, a, n - 1, b.v), a, q, n + 1)

Build(h, t) ==
    IF t.tag = "map"
    THEN LET al == Alloc(h, MapObj(<<>>))
         IN [h |-> BuildMapLoop(al.h, al.a, t.m, DOMAIN t.m), v |-> MapRef(al.a)]
    ELSE IF t.tag = "slice"
    THEN LET al == Alloc(h, ArrayObj([n \in 1..Len(t.q) |-> Nil]))
         IN [h |-> BuildSliceLoop(al.h, al.a, t.q, 1), v |-> SliceRef(al.a)]
    ELSE [h |-> h, v |-> t]

-----------------------------------------------------------------------------
(* pkg/helmwrap: paths, get, set, copy, modify *)

ValueTypeString == 0
ValueTypeInt == 1
ValueTypeBool == 2
ValueTypeSlice == 3
ValueTypeMap == 4
ValueTypeUnknown == 5

IntTags == {"int", "int8", "int16", "int32", "int64",
            "uint", "uint8", "uint16", "uint32", "uint64"}
FloatTags == {"float32", "float64"}

\* determineValueType without its case for float32 and float64.
determineValueTypeNoFloat(v) ==
    IF v.tag = "string" THEN ValueTypeString
    ELSE IF v.tag \in IntTags THEN ValueTypeInt
    ELSE IF v.tag = "bool" THEN ValueTypeBool
    ELSE IF v.tag = "slice" THEN ValueTypeSlice
    ELSE IF v.tag = "map" THEN ValueTypeMap
    ELSE ValueTypeUnknown

determineValueType(v) ==
    IF v.tag = "string" THEN ValueTypeString
    ELSE IF v.tag \in IntTags THEN ValueTypeInt
    ELSE IF v.tag \in FloatTags THEN ValueTypeInt
    ELSE IF v.tag = "bool" THEN ValueTypeBool
    ELSE IF v.tag = "slice" THEN ValueTypeSlice
    ELSE IF v.tag = "map" THEN ValueTypeMap
    ELSE ValueTypeUnknown

\* splitPath: the non-empty runs of characters between '.'s, scanning from
\* position i with the run read so far in current.
RECURSIVE splitPathLoop(_, _, _, _)
splitPathLoop(path, i, parts, current) ==
    IF i > Len(path)
    THEN (IF current # <<>> THEN Append(parts, current) ELSE parts)
    ELSE IF path[i] = "."
    THEN (IF current # <<>>
          THEN splitPathLoop(path, i + 1, Append(parts, current), <<>>)
          ELSE splitPathLoop(path, i + 1, parts, current))
    ELSE splitPathLoop(path, i + 1, parts, Append(current, path[i]))

splitPath(path) == IF path = <<>> THEN <<>> ELSE splitPathLoop(path, 1, <<>>, <<>>)

ErrNone == "ok"
ErrKeyNotFound == "key not found"
ErrNonMap == "cannot access key on non-map type"
ErrEmptyPath == "empty path"
ErrNavigate == "cannot navigate through non-map value"
ErrExpectedString == "expected string value"
ErrExpectedNumeric == "expected numeric value"
ErrExpectedBool == "expected boolean value"
ErrExpectedSlice == "expected slice value"
ErrExpectedMap == "expected map value"
ErrUnsupported == "unsupported value type for modification"
\* A runtime panic (index out of range): no error value is returned.
Panic == "panic: index out of range"

RECURSIVE getLoop(_, _, _, _)
getLoop(h, current, keys, i) ==
    IF i > Len(keys) THEN [v |-> current, err |-> ErrNone]
    ELSE IF current.tag = "map"
    THEN (IF keys[i] \in DOMAIN h[current.a].m
          THEN getLoop(h, h[current.a].m[keys[i]], keys, i + 1)
          ELSE [v |-> Nil, err |-> ErrKeyNotFound])
    ELSE [v |-> Nil, err |-> ErrNonMap]

\* getValueAtPath looking a key up only where the current value is a map, and
\* stopping at the value reached where it is not.
RECURSIVE getLoopNoTypeCheck(_, _, _, _)
getLoopNoTypeCheck(h, current, keys, i) ==
    IF i > Len(keys) THEN [v |-> current, err |-> ErrNone]
    ELSE IF current.tag = "map"
    THEN (IF keys[i] \in DOMAIN h[current.a].m
          THEN getLoopNoTypeCheck(h, h[current.a].m[keys[i]], keys, i + 1)
          ELSE [v |-> Nil, err |-> ErrKeyNotFound])
    ELSE [v |-> current, err |-> ErrNone]

getValueAtPathNoTypeCheck(h, data, path) ==
    IF path = <<>> THEN [v |-> data, err |-> ErrNone]
    ELSE getLoopNoTypeCheck(h, data, splitPath(path), 1)

getValueAtPath(h, data, path) ==
    IF path = <<>> THEN [v |-> data, err |-> ErrNone]
    ELSE getLoop(h, data, splitPath(path), 1)

\* setValueAtPath with the navigation left out: the final key is assigned in
\* the map passed in.
setValueAtPathNoNavigation(h, data, path, value) ==
    IF path = <<>> THEN [h |-> h, err |-> ErrEmptyPath]
    ELSE LET keys == splitPath(path)
         IN IF Len(keys) = 0 THEN [h |-> h, err |-> Panic]
            ELSE [h |-> SetKey(h, data, keys[Len(keys)], value), err |-> ErrNone]

\* setValueAtPath creating the intermediate map of the first key before it
\* has looked at what the key holds.
setValueAtPathEagerCreate(h, data, path, value) ==
    IF path = <<>> THEN [h |-> h, err |-> ErrEmptyPath]
    ELSE LET keys == splitPath(path)
         IN IF Len(keys) = 0 THEN [h |-> h, err |-> Panic]
            ELSE IF Len(keys) = 1
            THEN [h |-> SetKey(h, data, keys[1], value), err |-> ErrNone]
            ELSE IF keys[1] \in DOMAIN h[data].m /\ h[data].m[keys[1]].tag # "map"
            THEN LET al == Alloc(h, MapObj(<<>>))
                 IN [h |-> SetKey(al.h, data, keys[1], MapRef(al.a)), err |-> ErrNavigate]
            ELSE [h |-> h, err |-> ErrNavigate]

\* The navigation loop of setValueAtPath at keys[i] (1-based), then the final
\* assignment; keys[len(keys)-1] of an empty list panics.
RECURSIVE setLoop(_, _, _, _, _)
setLoop(h, current, keys, i, value) ==
    IF i > Len(keys) - 1
    THEN (IF Len(keys) = 0 THEN [h |-> h, err |-> Panic]
          ELSE [h |-> SetKey(h, current, keys[Len(keys)], value), err |-> ErrNone])
    ELSE IF keys[i] \in DOMAIN h[current].m
    THEN (LET next == h[current].m[keys[i]]
          IN IF next.tag = "map" THEN setLoop(h, next.a, keys, i + 1, value)
             ELSE [h |-> h, err |-> ErrNavigate])
    ELSE LET al == Alloc(h, MapObj(<<>>))
         IN setLoop(SetKey(al.h, current, keys[i], MapRef(al.a)), al.a, keys, i + 1, value)

setValueAtPath(h, data, path, value) ==
    IF path = <<>> THEN [h |-> h, err |-> ErrEmptyPath]
    ELSE setLoop(h, data, splitPath(path), 1, value)

\* copyMap(src, dst) and copySlice(src).  The order in which the keys of src
\* are visited only decides which fresh address a copy gets.
RECURSIVE copyMapLoop(_, _, _, _)
RECURSIVE copySliceLoop(_, _, _, _)

copyMapLoop(h, src, dst, todo) ==
    IF todo = {} THEN h
    ELSE LET key == CHOOSE k \in todo : TRUE
             value == h[src].m[key]
         IN IF value.tag = "map"
            THEN LET al == Alloc(h, MapObj(<<>>))
                     h2 == copyMapLoop(al.h, value.a, al.a, DOMAIN h[value.a].m)
                 IN copyMapLoop(SetKey(h2, dst, key, MapRef(al.a)), src, dst, todo \ {key})
            ELSE IF value.tag = "slice"
            THEN LET al == Alloc(h, ArrayObj([n \in 1..Len(h[value.a].q) |-> Nil]))
                     h2 == copySliceLoop(al.h, value.a, al.a, 1)
                 IN copyMapLoop(SetKey(h2, dst, key, SliceRef(al.a)), src, dst, todo \ {key})
            ELSE copyMapLoop(SetKey(h, dst, key, value), src, dst, todo \ {key})

copySliceLoop(h, src, dst, n) ==
    IF n > Len(h[src].q) THEN h
    ELSE LET item == h[src].q[n]
         IN IF item.tag = "map"
            THEN LET al == Alloc(h, MapObj(<<>>))
                     h2 == copyMapLoop(al.h, item.a, al.a, DOMAIN h[item.a].m)
                 IN copySliceLoop(SetIndex(h2, dst, n - 1, MapRef(al.a)), src, dst, n + 1)
            ELSE IF item.tag = "slice"
            THEN LET al == Alloc(h, ArrayObj([k \in 1..Len(h[item.a].q) |-> Nil]))
                     h2 == copySliceLoop(al.h, item.a, al.a, 1)
                 IN copySliceLoop(SetIndex(h2, dst, n - 1, SliceRef(al.a)), src, dst, n + 1)
            ELSE copySliceLoop(SetIndex(h, dst, n - 1, item), src, dst, n + 1)

\* copyMap assigning every value as it is: nested maps and slices shared.
copyMapShallow(h, src, dst) ==
    [h EXCEPT ![dst] = MapObj([k \in DOMAIN h[dst].m \cup DOMAIN h[src].m |->
                                  IF k \in DOMAIN h[src].m THEN h[src].m[k]
                                  ELSE h[dst].m[k]])]

copyMap(h, src, dst) == copyMapLoop(h, src, dst, DOMAIN h[src].m)

copySlice(h, src) ==
    LET al == Alloc(h, ArrayObj([n \in 1..Len(h[src].q) |-> Nil]))
    IN [h |-> copySliceLoop(al.h, src, al.a, 1), v |-> SliceRef(al.a)]

\* GetValueType on the text of a tree that decodes to data.
GetValueType(h, data, path) ==
    LET g == getValueAtPath(h, data, path)
    IN IF g.err # ErrNone THEN [t |-> ValueTypeUnknown, err |-> g.err]
       ELSE [t |-> determineValueType(g.v), err |-> ErrNone]

\* "helmhound-test-"
sTestPrefix ==
    <<"h", "e", "l", "m", "h", "o", "u", "n", "d", "-", "t", "e", "s", "t", "-">>
sTestElement == sTestPrefix \o <<"e", "l", "e", "m", "e", "n", "t">>
sTestKey == sTestPrefix \o <<"k", "e", "y">>
sTestValue == sTestPrefix \o <<"v", "a", "l", "u", "e">>

\* v + 1 in the integer type of v: the 8-bit types wrap around; the inputs of
\* the wider types stay far from their limits.
PlusOne(v) ==
    IF v.tag = "int8" THEN [v EXCEPT !.i = ((v.i + 1 + 128) % 256) - 128]
    ELSE IF v.tag = "uint8" THEN [v EXCEPT !.i = (v.i + 1) % 256]
    ELSE [v EXCEPT !.i = v.i + 1]

\* int(v) of a finite float holding h/2: truncation toward zero.
Truncate(h) == IF h >= 0 THEN h \div 2 ELSE -((-h) \div 2)

\* The new value modifyValueAtPath computes from the current one, with the
\* heap after the allocations it makes.
newValueFor(h, currentValue, valueType) ==
    IF valueType = ValueTypeString
    THEN (IF currentValue.tag = "string"
          THEN [h |-> h, v |-> StrV(sTestPrefix \o currentValue.s), err |-> ErrNone]
          ELSE [h |-> h, v |-> Nil, err |-> ErrExpectedString])
    ELSE IF valueType = ValueTypeInt
    THEN (IF currentValue.tag \in IntTags
          THEN [h |-> h, v |-> PlusOne(currentValue), err |-> ErrNone]
          ELSE IF currentValue.tag \in FloatTags
          THEN [h |-> h, v |-> IntV(Truncate(currentValue.h) + 1), err |-> ErrNone]
          ELSE [h |-> h, v |-> Nil, err |-> ErrExpectedNumeric])
    ELSE IF valueType = ValueTypeBool
    THEN (IF currentValue.tag = "bool"
          THEN [h |-> h, v |-> BoolV(~currentValue.b), err |-> ErrNone]
          ELSE [h |-> h, v |-> Nil, err |-> ErrExpectedBool])
    ELSE IF valueType = ValueTypeSlice
    THEN (IF currentValue.tag = "slice"
          THEN LET al == Alloc(h, ArrayObj(Append(h[currentValue.a].q, StrV(sTestElement))))
               IN [h |-> al.h, v |-> SliceRef(al.a), err |-> ErrNone]
          ELSE [h |-> h, v |-> Nil, err |-> ErrExpectedSlice])
    ELSE IF valueType = ValueTypeMap
    THEN (IF currentValue.tag = "map"
          THEN LET al == Alloc(h, MapObj(<<>>))
                   h2 == copyMap(al.h, currentValue.a, al.a)
               IN [h |-> SetKey(h2, al.a, sTestKey, StrV(sTestValue)),
                   v |-> MapRef(al.a), err |-> ErrNone]
          ELSE [h |-> h, v |-> Nil, err |-> ErrExpectedMap])
    ELSE [h |-> h, v |-> Nil, err |-> ErrUnsupported]

\* modifyValueAtPath handing back the copy it worked on together with the
\* error when the value has not the requested type.
modifyValueAtPathKeepsCopy(h, vals, path, valueType) ==
    LET al == Alloc(h, MapObj(<<>>))
        h1 == copyMap(al.h, vals, al.a)
        modifiedValues == MapRef(al.a)
        cur == getValueAtPath(h1, modifiedValues, path)
    IN IF cur.err # ErrNone THEN [h |-> h1, v |-> Nil, err |-> cur.err]
       ELSE LET nv == newValueFor(h1, cur.v, valueType)
            IN IF nv.err # ErrNone THEN [h |-> nv.h, v |-> modifiedValues, err |-> nv.err]
               ELSE LET st == setValueAtPath(nv.h, al.a, path, nv.v)
                    IN IF st.err # ErrNone THEN [h |-> st.h, v |-> Nil, err |-> st.err]
                       ELSE [h |-> st.h, v |-> modifiedValues, err |-> ErrNone]

\* modifyValueAtPath(values, path, valueType): the heap afterwards, the map
\* returned (Nil with an error) and the error.
modifyValueAtPath(h, vals, path, valueType) ==
    LET al == Alloc(h, MapObj(<<>>))
        h1 == copyMap(al.h, vals, al.a)
        modifiedValues == MapRef(al.a)
        cur == getValueAtPath(h1, modifiedValues, path)
    IN IF cur.err # ErrNone THEN [h |-> h1, v |-> Nil, err |-> cur.err]
       ELSE LET nv == newValueFor(h1, cur.v, valueType)
            IN IF nv.err # ErrNone THEN [h |-> nv.h, v |-> Nil, err |-> nv.err]
               ELSE LET st == setValueAtPath(nv.h, al.a, path, nv.v)
                    IN IF st.err # ErrNone THEN [h |-> st.h, v |-> Nil, err |-> st.err]
                       ELSE [h |-> st.h, v |-> modifiedValues, err |-> ErrNone]

\* string(rune(i + '0')): the character with code i + 48, a digit only for
\* i below 10.
RuneChars == <<"0", "1", "2", "3", "4", "5", "6", "7", "8", "9",
               ":", ";", "<", "=", ">", "?", "@", "A", "B", "C">>
RuneFromZero(i) == RuneChars[i + 1]

\* extractPaths over a decoded tree: the set of lists the walk can end with,
\* one per order in which the maps are iterated.
RECURSIVE extractPaths(_, _, _)
RECURSIVE extractMapLoop(_, _, _, _)
RECURSIVE extractSliceLoop(_, _, _, _)

extractMapLoop(prefix, m, todo, ps) ==
    IF todo = {} THEN ps
    ELSE UNION { LET fullPath == IF prefix # <<>> THEN prefix \o <<".">> \o key ELSE key
                     step == UNION { extractPaths(fullPath, m[key], Append(p, fullPath))
                                     : p \in ps }
                 IN extractMapLoop(prefix, m, todo \ {key}, step)
                 : key \in todo }

extractSliceLoop(prefix, q, i, ps) ==
    IF i >= Len(q) THEN ps
    ELSE LET indexPath == prefix \o <<"[", RuneFromZero(i), "]">>
             step == UNION { extractPaths(indexPath, q[i + 1], Append(p, indexPath))
                             : p \in ps }
         IN extractSliceLoop(prefix, q, i + 1, step)

extractPaths(prefix, data, paths) ==
    IF data.tag = "map" THEN extractMapLoop(prefix, data.m, DOMAIN data.m, {paths})
    ELSE IF data.tag = "slice" THEN extractSliceLoop(prefix, data.q, 0, {paths})
    ELSE {paths}

\* ExtractValuePaths on the text of a tree that decodes to data.
ExtractValuePaths(data) == extractPaths(<<>>, data, <<>>)

-----------------------------------------------------------------------------
(* pkg/yamldiff *)

buildPath(basePath, key) ==
    IF basePath = <<>> THEN key ELSE basePath \o <<".">> \o key

buildArrayPath(basePath, index) ==
    LET indexStr == <<"[">> \o Itoa(index) \o <<"]">>
    IN IF basePath = <<>> THEN indexStr ELSE basePath \o indexStr

DiffTypeModified == "modified"
DiffTypeAdded == "added"
DiffTypeRemoved == "removed"

DiffValue(l, r, t) == [Left |-> l, Right |-> r, Type |-> t]

\* diffs[path] = dv on a Go map: inserts or overwrites.
Put(d, path, dv) ==
    [p \in DOMAIN d \cup {path} |-> IF p = path THEN dv ELSE d[p]]

Max(a, b) == IF a > b THEN a ELSE b

\* Go iterates a map in an unspecified order, and the diffs map is written as
\* the walk goes, so every function below yields the SET of diff maps the
\* call can end with, one per iteration order.
RECURSIVE findDifferencesWithValues(_, _, _, _)
RECURSIVE findMapLeftLoop(_, _, _, _, _)
RECURSIVE findMapRightLoop(_, _, _, _, _)
RECURSIVE findSliceLoop(_, _, _, _, _)

\* The first loop of findMapDifferencesWithValues over the keys of left not
\* yet visited, from each diff map of ds.
findMapLeftLoop(basePath, l, r, todo, ds) ==
    IF todo = {} THEN ds
    ELSE UNION { LET newPath == buildPath(basePath, key)
                     step == UNION { IF key \in DOMAIN r
                                     THEN findDifferencesWithValues(newPath, l[key], r[key], d)
                                     ELSE {Put(d, newPath, DiffValue(l[key], Nil, DiffTypeRemoved))}
                                     : d \in ds }
                 IN findMapLeftLoop(basePath, l, r, todo \ {key}, step)
                 : key \in todo }

\* The second loop, over the keys of right.
findMapRightLoop(basePath, l, r, todo, ds) ==
    IF todo = {} THEN ds
    ELSE UNION { LET step == IF key \notin DOMAIN l
                             THEN { Put(d, buildPath(basePath, key),
                                        DiffValue(Nil, r[key], DiffTypeAdded)) : d \in ds }
                             ELSE ds
                 IN findMapRightLoop(basePath, l, r, todo \ {key}, step)
                 : key \in todo }

findMapDifferencesWithValues(basePath, l, r, d) ==
    findMapRightLoop(basePath, l, r, DOMAIN r,
                     findMapLeftLoop(basePath, l, r, DOMAIN l, {d}))

\* The loop of findSliceDifferencesWithValues from index i (0-based) on.
findSliceLoop(basePath, l, r, i, ds) ==
    IF i >= Max(Len(l), Len(r)) THEN ds
    ELSE LET newPath == buildArrayPath(basePath, i)
             step == UNION { IF i >= Len(l)
                             THEN {Put(d, newPath, DiffValue(Nil, r[i + 1], DiffTypeAdded))}
                             ELSE IF i >= Len(r)
                             THEN {Put(d, newPath, DiffValue(l[i + 1], Nil, DiffTypeRemoved))}
                             ELSE findDifferencesWithValues(newPath, l[i + 1], r[i + 1], d)
                             : d \in ds }
         IN findSliceLoop(basePath, l, r, i + 1, step)

findSliceDifferencesWithValues(basePath, l, r, d) ==
    findSliceLoop(basePath, l, r, 0, {d})

findDifferencesWithValues(path, l, r, d) ==
    IF l = Nil /\ r = Nil THEN {d}
    ELSE IF l = Nil THEN {Put(d, path, DiffValue(Nil, r, DiffTypeAdded))}
    ELSE IF r = Nil THEN {Put(d, path, DiffValue(l, Nil, DiffTypeRemoved))}
    ELSE IF TypeOf(l) # TypeOf(r)
    THEN {Put(d, path, DiffValue(l, r, DiffTypeModified))}
    ELSE IF TypeOf(l) = "map" THEN findMapDifferencesWithValues(path, l.m, r.m, d)
    ELSE IF TypeOf(l) = "slice" THEN findSliceDifferencesWithValues(path, l.q, r.q, d)
    ELSE IF ~DeepEqual(l, r)
    THEN {Put(d, path, DiffValue(l, r, DiffTypeModified))}
    ELSE {d}

FindDifferencesWithValues(l, r) == findDifferencesWithValues(<<>>, l, r, <<>>)

\* compareValues and its helpers append to a list; the same walk, with the
\* set of lists the call can end with.
RECURSIVE compareValues(_, _, _, _)
RECURSIVE compareMapLeftLoop(_, _, _, _, _)
RECURSIVE compareMapRightLoop(_, _, _, _, _)
RECURSIVE compareSliceLoop(_, _, _, _, _)

compareMapLeftLoop(basePath, l, r, todo, ds) ==
    IF todo = {} THEN ds
    ELSE UNION { LET newPath == buildPath(basePath, key)
                     step == UNION { IF key \in DOMAIN r
                                     THEN compareValues(newPath, l[key], r[key], d)
                                     ELSE {Append(d, newPath)}
                                     : d \in ds }
                 IN compareMapLeftLoop(basePath, l, r, todo \ {key}, step)
                 : key \in todo }

compareMapRightLoop(basePath, l, r, todo, ds) ==
    IF todo = {} THEN ds
    ELSE UNION { LET step == IF key \notin DOMAIN l
                             THEN { Append(d, buildPath(basePath, key)) : d \in ds }
                             ELSE ds
                 IN compareMapRightLoop(basePath, l, r, todo \ {key}, step)
                 : key \in todo }

compareMap(basePath, l, r, d) ==
    compareMapRightLoop(basePath, l, r, DOMAIN r,
                        compareMapLeftLoop(basePath, l, r, DOMAIN l, {d}))

compareSliceLoop(basePath, l, r, i, ds) ==
    IF i >= Max(Len(l), Len(r)) THEN ds
    ELSE LET newPath == buildArrayPath(basePath, i)
             step == UNION { IF i >= Len(l) THEN {Append(d, newPath)}
                             ELSE IF i >= Len(r) THEN {Append(d, newPath)}
                             ELSE compareValues(newPath, l[i + 1], r[i + 1], d)
                             : d \in ds }
         IN compareSliceLoop(basePath, l, r, i + 1, step)

compareSlice(basePath, l, r, d) == compareSliceLoop(basePath, l, r, 0, {d})

compareValues(path, l, r, d) ==
    IF l = Nil /\ r = Nil THEN {d}
    ELSE IF l = Nil \/ r = Nil THEN {Append(d, path)}
    ELSE IF TypeOf(l) # TypeOf(r) THEN {Append(d, path)}
    ELSE IF TypeOf(l) = "map" THEN compareMap(path, l.m, r.m, d)
    ELSE IF TypeOf(l) = "slice" THEN compareSlice(path, l.q, r.q, d)
    ELSE IF ~DeepEqual(l, r) THEN {Append(d, path)}
    ELSE {d}

CompareYAML(l, r) == compareValues(<<>>, l, r, <<>>)

\* extractManifestKey: the prefix before the first '.', found by scanning
\* from position i (1-based) on.
RECURSIVE extractManifestKeyFrom(_, _)
extractManifestKeyFrom(path, i) ==
    IF i > Len(path) THEN path
    ELSE IF path[i] = "." THEN SubSeq(path, 1, i - 1)
    ELSE extractManifestKeyFrom(path, i + 1)

\* extractManifestKey cutting after the '.' instead of before it.
extractManifestKeyWithDot(path) ==
    LET key == extractManifestKeyFrom(path, 1)
    IN IF Len(key) < Len(path) THEN SubSeq(path, 1, Len(key) + 1) ELSE key

extractManifestKey(path) == extractManifestKeyFrom(path, 1)

\* "(affects entire manifest)"
AffectsEntireManifest ==
    <<"(", "a", "f", "f", "e", "c", "t", "s", " ", "e", "n", "t", "i", "r", "e", " ",
      "m", "a", "n", "i", "f", "e", "s", "t", ")">>

createUserFriendlyDisplayText(path, manifestKey) ==
    IF path = manifestKey THEN AffectsEntireManifest ELSE path

GroupedDifferenceItem(path, displayText) == [Path |-> path, DisplayText |-> displayText]

\* grouped[key] = append(grouped[key], item)
AppendTo(g, key, item) ==
    [k \in DOMAIN g \cup {key} |->
        IF k = key THEN (IF key \in DOMAIN g THEN Append(g[key], item) ELSE <<item>>)
        ELSE g[k]]

RECURSIVE groupLoop(_, _, _)
groupLoop(ps, i, g) ==
    IF i > Len(ps) THEN g
    ELSE groupLoop(ps, i + 1, AppendTo(g, extractManifestKey(ps[i]), ps[i]))

RECURSIVE groupDetailedLoop(_, _, _)
groupDetailedLoop(ps, i, g) ==
    IF i > Len(ps) THEN g
    ELSE LET manifestKey == extractManifestKey(ps[i])
             displayText == createUserFriendlyDisplayText(ps[i], manifestKey)
         IN groupDetailedLoop(ps, i + 1,
                AppendTo(g, manifestKey, GroupedDifferenceItem(ps[i], displayText)))

CompareYAMLGrouped(l, r) == { groupLoop(ps, 1, <<>>) : ps \in CompareYAML(l, r) }

CompareYAMLGroupedDetailed(l, r) ==
    { groupDetailedLoop(ps, 1, <<>>) : ps \in CompareYAML(l, r) }

-----------------------------------------------------------------------------
(* pkg/helmwrap: strings, as the template scanner uses them *)

\* unicode.IsSpace on the characters a template holds.
SpaceChars == {" ", "\t", "\n", "\r"}

RECURSIVE TrimLeft(_)
TrimLeft(s) == IF s # <<>> /\ s[1] \in SpaceChars THEN TrimLeft(Tail(s)) ELSE s

RECURSIVE TrimRight(_)
TrimRight(s) ==
    IF s # <<>> /\ s[Len(s)] \in SpaceChars THEN TrimRight(SubSeq(s, 1, Len(s) - 1)) ELSE s

\* strings.TrimSpace
TrimSpace(s) == TrimRight(TrimLeft(s))

\* strings.HasPrefix, strings.HasSuffix
HasPrefix(s, prefix) == Len(prefix) <= Len(s) /\ SubSeq(s, 1, Len(prefix)) = prefix
HasSuffix(s, suffix) ==
    Len(suffix) <= Len(s) /\ SubSeq(s, Len(s) - Len(suffix) + 1, Len(s)) = suffix

\* strings.TrimPrefix, strings.TrimSuffix
TrimPrefix(s, prefix) ==
    IF HasPrefix(s, prefix) THEN SubSeq(s, Len(prefix) + 1, Len(s)) ELSE s
TrimSuffix(s, suffix) ==
    IF HasSuffix(s, suffix) THEN SubSeq(s, 1, Len(s) - Len(suffix)) ELSE s

\* strings.Index: the 0-based offset of the first occurrence of substr at or
\* after offset i, or -1.
RECURSIVE IndexFrom(_, _, _)
IndexFrom(s, substr, i) ==
    IF i + Len(substr) > Len(s) THEN -1
    ELSE IF SubSeq(s, i + 1, i + Len(substr)) = substr THEN i
    ELSE IndexFrom(s, substr, i + 1)

\* strings.Contains
Contains(s, substr) == IndexFrom(s, substr, 0) >= 0

\* strings.SplitN(s, sep, 2)
SplitN2(s, sep) ==
    LET i == IndexFrom(s, sep, 0)
    IN IF i < 0 THEN <<s>>
       ELSE <<SubSeq(s, 1, i), SubSeq(s, i + Len(sep) + 1, Len(s))>>

\* strings.Split(s, sep) for a non-empty sep
RECURSIVE Split(_, _)
Split(s, sep) ==
    LET i == IndexFrom(s, sep, 0)
    IN IF i < 0 THEN <<s>>
       ELSE <<SubSeq(s, 1, i)>> \o Split(SubSeq(s, i + Len(sep) + 1, Len(s)), sep)

\* strings.Join
RECURSIVE Join(_, _)
Join(elems, sep) ==
    IF elems = <<>> THEN <<>>
    ELSE IF Len(elems) = 1 THEN elems[1]
    ELSE elems[1] \o sep \o Join(Tail(elems), sep)

-----------------------------------------------------------------------------
(* package regexp, as far as createSearchPatterns uses it *)

\* The characters regexp.QuoteMeta escapes.
MetaChars == {"\\", ".", "+", "*", "?", "(", ")", "|", "[", "]", "{", "}", "^", "$"}

RECURSIVE QuoteMeta(_)
QuoteMeta(s) ==
    IF s = <<>> THEN <<>>
    ELSE (IF s[1] \in MetaChars THEN <<"\\", s[1]>> ELSE <<s[1]>>) \o QuoteMeta(Tail(s))

\* The word characters of \b: [0-9A-Za-z_].
WordChars ==
    {"0", "1", "2", "3", "4", "5", "6", "7", "8", "9", "_",
     "a", "b", "c", "d", "e", "f", "g", "h", "i", "j", "k", "l", "m",
     "n", "o", "p", "q", "r", "s", "t", "u", "v", "w", "x", "y", "z",
     "A", "B", "C", "D", "E", "F", "G", "H", "I", "J", "K", "L", "M",
     "N", "O", "P", "Q", "R", "S", "T", "U", "V", "W", "X", "Y", "Z"}

\* The elements of a compiled pattern.
LitAtom(c) == [k |-> "lit", c |-> c]
AnyAtom == [k |-> "any"]
ClassAtom(cs) == [k |-> "class", cs |-> cs]
WordBoundaryAtom == [k |-> "wb"]

\* The offset (1-based) of the ']' closing the class opened before i.
RECURSIVE ClassEnd(_, _)
ClassEnd(expr, i) ==
    IF i > Len(expr) THEN i
    ELSE IF expr[i] = "]" THEN i
    ELSE ClassEnd(expr, i + 1)

\* regexp.MustCompile on an expression made of literals, escapes, '.', a
\* bracketed class and \b, read from position i on.
RECURSIVE Compile(_, _)
Compile(expr, i) ==
    IF i > Len(expr) THEN <<>>
    ELSE IF expr[i] = "\\" /\ i < Len(expr)
    THEN <<IF expr[i + 1] = "b" THEN WordBoundaryAtom ELSE LitAtom(expr[i + 1])>>
         \o Compile(expr, i + 2)
    ELSE IF expr[i] = "." THEN <<AnyAtom>> \o Compile(expr, i + 1)
    ELSE IF expr[i] = "["
    THEN LET e == ClassEnd(expr, i + 1)
         IN <<ClassAtom({ expr[n] : n \in (i + 1)..(e - 1) })>> \o Compile(expr, e + 1)
    ELSE <<LitAtom(expr[i])>> \o Compile(expr, i + 1)

MustCompile(expr) == Compile(expr, 1)

IsWordAt(line, n) == n >= 1 /\ n <= Len(line) /\ line[n] \in WordChars

\* Matching the atoms from the k-th on at offset pos (0-based) of line: the
\* offset the match ends at, or -1.
RECURSIVE MatchAt(_, _, _, _)
MatchAt(atoms, k, line, pos) ==
    IF k > Len(atoms) THEN pos
    ELSE IF atoms[k].k = "wb"
    THEN (IF IsWordAt(line, pos) # IsWordAt(line, pos + 1)
          THEN MatchAt(atoms, k + 1, line, pos) ELSE -1)
    ELSE IF pos >= Len(line) THEN -1
    ELSE IF \/ atoms[k].k = "any" /\ line[pos + 1] # "\n"
            \/ atoms[k].k = "lit" /\ line[pos + 1] = atoms[k].c
            \/ atoms[k].k = "class" /\ line[pos + 1] \in atoms[k].cs
    THEN MatchAt(atoms, k + 1, line, pos + 1)
    ELSE -1

\* (*Regexp).FindAllStringIndex(line, -1): the leftmost matches that do not
\* overlap, as <<start, end>> offsets, searching from offset pos on.
RECURSIVE FindAllFrom(_, _, _)
FindAllFrom(atoms, line, pos) ==
    IF pos > Len(line) THEN <<>>
    ELSE LET e == MatchAt(atoms, 1, line, pos)
         IN IF e < 0 THEN FindAllFrom(atoms, line, pos + 1)
            ELSE <<<<pos, e>>>> \o FindAllFrom(atoms, line, IF e > pos THEN e ELSE pos + 1)

FindAllStringIndex(atoms, line) == FindAllFrom(atoms, line, 0)

-----------------------------------------------------------------------------
(* pkg/helmwrap: the template scanner and its formatter *)

\* ".Values", its form in a regular expression, and the strings
\* extractManifestPath looks for.
sDotValues == <<".", "V", "a", "l", "u", "e", "s">>
sValuesExpr == <<"\\", ".", "V", "a", "l", "u", "e", "s", "\\", ".">>
sWordBoundaryExpr == <<"\\", "b">>
sColon == <<":">>
sHash == <<"#">>
sDoubleQuote == <<"\"">>
sSingleQuote == <<"'">>
sOpenTrim == <<"{", "{", "-">>
sCloseTrim == <<"-", "}", "}">>
sOpen == <<"{", "{">>
sClose == <<"}", "}">>
sIf == <<"i", "f">>
sRange == <<"r", "a", "n", "g", "e">>
sWith == <<"w", "i", "t", "h">>
sDefine == <<"d", "e", "f", "i", "n", "e">>
sTemplate == <<"t", "e", "m", "p", "l", "a", "t", "e">>
sKindColon == <<"k", "i", "n", "d", ":">>
sApiVersionColon == <<"a", "p", "i", "V", "e", "r", "s", "i", "o", "n", ":">>
sMetadataColon == <<"m", "e", "t", "a", "d", "a", "t", "a", ":">>
sNewline == <<"\n">>
sDot == <<".">>

\* createSearchPatterns handing the path to the expression as it is.
createSearchPatternsUnescaped(valuePath) ==
    <<MustCompile(sValuesExpr \o valuePath \o sWordBoundaryExpr)>>

createSearchPatterns(valuePath) ==
    LET escapedPath == QuoteMeta(valuePath)
    IN <<MustCompile(sValuesExpr \o escapedPath \o sWordBoundaryExpr)>>

RECURSIVE getIndentLevel(_)
getIndentLevel(line) ==
    IF line = <<>> THEN 0
    ELSE IF line[1] = " " THEN 1 + getIndentLevel(Tail(line))
    ELSE IF line[1] = "\t" THEN 2 + getIndentLevel(Tail(line))
    ELSE 0

\* A key that starts and ends with the same quote character.
IsQuoted(key) ==
    \/ HasPrefix(key, sDoubleQuote) /\ HasSuffix(key, sDoubleQuote)
    \/ HasPrefix(key, sSingleQuote) /\ HasSuffix(key, sSingleQuote)

\* key[1 : len(key)-1] of a quoted key; the slice expression panics when the
\* key is a quote character alone (bounds [1:0]).
UnquotePanics(key) == IsQuoted(key) /\ Len(key) < 2
Unquote(key) == IF IsQuoted(key) THEN SubSeq(key, 2, Len(key) - 1) ELSE key

IsControlStructure(parentKey) ==
    \/ Contains(parentKey, sIf)
    \/ Contains(parentKey, sRange)
    \/ Contains(parentKey, sWith)
    \/ Contains(parentKey, sDefine)
    \/ Contains(parentKey, sTemplate)

\* The backward loop of extractManifestPath at line i (0-based), with the
\* keys and the indentation found so far.
RECURSIVE parentLoop(_, _, _, _)
parentLoop(lines, i, pathParts, currentIndent) ==
    IF i < 0 THEN [parts |-> pathParts, panic |-> FALSE]
    ELSE LET line == lines[i + 1]
             trimmedLine == TrimSpace(line)
             lineIndent == getIndentLevel(line)
             isParent == lineIndent < currentIndent /\ Contains(trimmedLine, sColon)
             parentKey == TrimSpace(SplitN2(trimmedLine, sColon)[1])
         IN IF trimmedLine = <<>> \/ HasPrefix(trimmedLine, sHash)
            THEN parentLoop(lines, i - 1, pathParts, currentIndent)
            ELSE IF isParent /\ IsControlStructure(parentKey)
            THEN parentLoop(lines, i - 1, pathParts, currentIndent)
            ELSE IF isParent /\ UnquotePanics(parentKey)
            THEN [parts |-> pathParts, panic |-> TRUE]
            ELSE LET taken == /\ isParent
                              /\ Unquote(parentKey) # <<>>
                              /\ ~Contains(Unquote(parentKey), sDotValues)
                     parts2 == IF taken THEN <<Unquote(parentKey)>> \o pathParts
                               ELSE pathParts
                     indent2 == IF taken THEN lineIndent ELSE currentIndent
                 IN IF /\ lineIndent = 0
                       /\ \/ HasPrefix(trimmedLine, sKindColon)
                          \/ HasPrefix(trimmedLine, sApiVersionColon)
                          \/ HasPrefix(trimmedLine, sMetadataColon)
                    THEN [parts |-> parts2, panic |-> FALSE]
                    ELSE parentLoop(lines, i - 1, parts2, indent2)

\* extractManifestPath(lines, currentLineIndex): the path, or a panic.
extractManifestPath(lines, currentLineIndex) ==
    IF currentLineIndex >= Len(lines) THEN [path |-> <<>>, panic |-> FALSE]
    ELSE LET currentLine == TrimSpace(lines[currentLineIndex + 1])
         IN IF ~Contains(currentLine, sColon) THEN [path |-> <<>>, panic |-> FALSE]
            ELSE LET key0 == TrimSpace(SplitN2(currentLine, sColon)[1])
                     key1 == TrimPrefix(key0, sOpenTrim)
                     key2 == TrimSuffix(key1, sCloseTrim)
                     key3 == TrimPrefix(key2, sOpen)
                     key4 == TrimSuffix(key3, sClose)
                     key5 == TrimSpace(key4)
                 IN IF UnquotePanics(key5) THEN [path |-> <<>>, panic |-> TRUE]
                    ELSE LET key == Unquote(key5)
                         IN IF key # <<>> /\ ~Contains(key, sDotValues)
                            THEN LET r == parentLoop(lines, currentLineIndex - 1, <<key>>,
                                                     getIndentLevel(lines[currentLineIndex + 1]))
                                 IN IF r.panic THEN [path |-> <<>>, panic |-> TRUE]
                                    ELSE [path |-> sDot \o Join(r.parts, sDot),
                                          panic |-> FALSE]
                            ELSE [path |-> <<>>, panic |-> FALSE]

ValueReference(file, line, content, fullLine, manifestPath) ==
    [File |-> file, Line |-> line, Content |-> content, FullLine |-> fullLine,
     ManifestPath |-> manifestPath]

\* The matches of one line (0-based lineNumber), appended to acc.
RECURSIVE searchMatches(_, _, _, _, _, _, _)
searchMatches(fileName, lines, lineNumber, matches, n, matchedPositions, acc) ==
    IF acc.panic \/ n > Len(matches) THEN acc
    ELSE LET match == matches[n]
             line == lines[lineNumber + 1]
         IN IF match[1] \in matchedPositions
            THEN searchMatches(fileName, lines, lineNumber, matches, n + 1,
                               matchedPositions, acc)
            ELSE LET matchText == SubSeq(line, match[1] + 1, match[2])
                     mp == extractManifestPath(lines, lineNumber)
                 IN IF mp.panic THEN [refs |-> acc.refs, panic |-> TRUE]
                    ELSE searchMatches(fileName, lines, lineNumber, matches, n + 1,
                                       matchedPositions \cup {match[1]},
                                       [refs |-> Append(acc.refs,
                                                    ValueReference(fileName, lineNumber + 1,
                                                        matchText, TrimSpace(line), mp.path)),
                                        panic |-> FALSE])

\* The lines of one file from lineNumber (0-based) on.
RECURSIVE searchLines(_, _, _, _, _)
searchLines(fileName, lines, lineNumber, patterns, acc) ==
    IF acc.panic \/ lineNumber >= Len(lines) THEN acc
    ELSE searchLines(fileName, lines, lineNumber + 1, patterns,
             searchMatches(fileName, lines, lineNumber,
                           FindAllStringIndex(patterns[1], lines[lineNumber + 1]),
                           1, {}, acc))

\* The files not yet visited, in every order the map can be iterated in.
RECURSIVE searchFiles(_, _, _, _)
searchFiles(templates, todo, patterns, accs) ==
    IF todo = {} THEN accs
    ELSE UNION { searchFiles(templates, todo \ {fileName}, patterns,
                     { searchLines(fileName, Split(templates[fileName], sNewline), 0,
                                   patterns, acc) : acc \in accs })
                 : fileName \in todo }

\* SearchValueInTemplates: the set of outcomes, each a list of references or
\* a panic.
SearchValueInTemplates(templates, valuePath) ==
    searchFiles(templates, DOMAIN templates, createSearchPatterns(valuePath),
                {[refs |-> <<>>, panic |-> FALSE]})

\* "No references found for the specified value."
sNoReferences == <<"N", "o", " ", "r", "e", "f", "e", "r", "e", "n", "c", "e", "s", " ", "f", "o", "u", "n", "d", " ", "f", "o", "r", " ", "t", "h", "e", " ", "s", "p", "e", "c", "i", "f", "i", "e", "d", " ", "v", "a", "l", "u", "e", ".">>
sHeaderOpen == <<"=", "=", "=", " ">>
sHeaderClose == <<" ", "=", "=", "=", "\n">>
sLineMark == <<"L", ":", " ">>

\* fileGroups[ref.File] = append(fileGroups[ref.File], ref) over references
RECURSIVE groupByFile(_, _, _)
groupByFile(references, n, fileGroups) ==
    IF n > Len(references) THEN fileGroups
    ELSE groupByFile(references, n + 1,
                     AppendTo(fileGroups, references[n].File, references[n]))

\* manifestInfo without the fallback to the matched text.
manifestInfoNoFallback(ref) == ref.ManifestPath

\* manifestInfo := ref.ManifestPath, or ref.Content when that is empty.
manifestInfo(ref) ==
    IF ref.ManifestPath = <<>> THEN ref.Content ELSE ref.ManifestPath

\* The lines written for the references of one file.
RECURSIVE formatRefs(_, _)
formatRefs(refs, n) ==
    IF n > Len(refs) THEN <<>>
    ELSE LET ref == refs[n]
         IN Itoa(ref.Line) \o sLineMark \o manifestInfo(ref) \o sNewline \o formatRefs(refs, n + 1)

\* The loop over fileGroups, in every order the map can be iterated in.
RECURSIVE formatFiles(_, _, _)
formatFiles(fileGroups, todo, results) ==
    IF todo = {} THEN results
    ELSE UNION { formatFiles(fileGroups, todo \ {fileName},
                     { result \o sHeaderOpen \o fileName \o sHeaderClose
                              \o formatRefs(fileGroups[fileName], 1) : result \in results })
                 : fileName \in todo }

\* FormatValueReferences: the set of strings the call can return.
FormatValueReferences(references) ==
    IF Len(references) = 0 THEN {sNoReferences}
    ELSE LET fileGroups == groupByFile(references, 1, <<>>)
         IN formatFiles(fileGroups, DOMAIN fileGroups, {<<>>})

-----------------------------------------------------------------------------
(* pkg/helmwrap: the manifest map of RenderTemplate *)

sDocSeparator == <<"-", "-", "-", "\n">>
sKind == <<"k", "i", "n", "d">>
sMetadata == <<"m", "e", "t", "a", "d", "a", "t", "a">>
sName == <<"n", "a", "m", "e">>
sV == <<"v">>
sUnderscore == <<"_">>
sDocumentPrefix == <<"d", "o", "c", "u", "m", "e", "n", "t", "_">>

\* The documents a release manifest is made of here.
sDocKx1 == <<"k", "i", "n", "d", ":", " ", "K", "\n", "m", "e", "t", "a", "d", "a", "t", "a", ":", "\n", " ", " ", "n", "a", "m", "e", ":", " ", "x", "\n", "v", ":", " ", "1", "\n">>
sDocKx2 == <<"k", "i", "n", "d", ":", " ", "K", "\n", "m", "e", "t", "a", "d", "a", "t", "a", ":", "\n", " ", " ", "n", "a", "m", "e", ":", " ", "x", "\n", "v", ":", " ", "2", "\n">>
sDocK1 == <<"k", "i", "n", "d", ":", " ", "K", "\n", "v", ":", " ", "1", "\n">>
sDocV1 == <<"v", ":", " ", "1", "\n">>
sDocList == <<"-", " ", "x", "\n">>
sDocBlank == <<"\n">>

\* yaml.Unmarshal(doc, &docData) into a map[string]interface{} on the
\* documents above: the map, or an error for a document that is not a
\* mapping.
Unmarshal(doc) ==
    IF doc = TrimSpace(sDocKx1)
    THEN [err |-> FALSE,
          docData |-> (sKind :> StrV(<<"K">>) @@ sMetadata :> Map1(sName, StrV(sX))
                       @@ sV :> IntV(1))]
    ELSE IF doc = TrimSpace(sDocKx2)
    THEN [err |-> FALSE,
          docData |-> (sKind :> StrV(<<"K">>) @@ sMetadata :> Map1(sName, StrV(sX))
                       @@ sV :> IntV(2))]
    ELSE IF doc = TrimSpace(sDocK1)
    THEN [err |-> FALSE, docData |-> (sKind :> StrV(<<"K">>) @@ sV :> IntV(1))]
    ELSE IF doc = TrimSpace(sDocV1)
    THEN [err |-> FALSE, docData |-> (sV :> IntV(1))]
    ELSE [err |-> TRUE, docData |-> <<>>]

\* v, ok := m[key].(string) and v, ok := m[key].(map[string]interface{})
IsStringAt(m, key) == key \in DOMAIN m /\ m[key].tag = "string"
IsMapAt(m, key) == key \in DOMAIN m /\ m[key].tag = "map"

\* manifestMap[key] = value
StoreDocument(manifestMap, key, value) ==
    [k \in DOMAIN manifestMap \cup {key} |-> IF k = key THEN value ELSE manifestMap[k]]

\* The loop over documents from index i (0-based) on.
RECURSIVE documentLoop(_, _, _)
documentLoop(documents, i, manifestMap) ==
    IF i >= Len(documents) THEN manifestMap
    ELSE LET doc == TrimSpace(documents[i + 1])
             parsed == Unmarshal(doc)
             docData == parsed.docData
         IN IF doc = <<>> THEN documentLoop(documents, i + 1, manifestMap)
            ELSE IF parsed.err
            THEN documentLoop(documents, i + 1,
                     StoreDocument(manifestMap, sDocumentPrefix \o Itoa(i), StrV(doc)))
            ELSE IF IsStringAt(docData, sKind)
            THEN LET kind == docData[sKind].s
                     key == IF /\ IsMapAt(docData, sMetadata)
                               /\ IsStringAt(docData[sMetadata].m, sName)
                            THEN kind \o sUnderscore \o docData[sMetadata].m[sName].s
                            ELSE kind
                 IN documentLoop(documents, i + 1,
                        StoreDocument(manifestMap, key, MapV(docData)))
            ELSE documentLoop(documents, i + 1,
                     StoreDocument(manifestMap, sDocumentPrefix \o Itoa(i), MapV(docData)))

\* The tail of RenderTemplate and of RenderTemplateWithModifiedValue: the
\* manifest of the release split into documents and stored in a map.
manifestMapOf(manifest) ==
    MapV(documentLoop(Split(manifest, sDocSeparator), 0, <<>>))

-----------------------------------------------------------------------------
(* pkg/helmwrap: DownloadChart and the cache file *)

sOciScheme == <<"o", "c", "i", ":", "/", "/">>
sSlash == <<"/">>
sDash == <<"-">>
sNoError == <<>>
sFailedToPull == <<"f", "a", "i", "l", "e", "d", " ", "t", "o", " ", "p", "u", "l", "l", " ", "c", "h", "a", "r", "t">>
sFailedToReadVersion == <<"f", "a", "i", "l", "e", "d", " ", "t", "o", " ", "r", "e", "a", "d", " ", "c", "h", "a", "r", "t", " ", "v", "e", "r", "s", "i", "o", "n">>

\* filepath.Join(homeDir, ".helmhound")
helmhoundDir == <<"~", "/", ".", "h", "e", "l", "m", "h", "o", "u", "n", "d">>

extractChartNameFromURL(chartUrl) ==
    IF HasPrefix(chartUrl, sOciScheme)
    THEN LET parts == Split(chartUrl, sSlash) IN parts[Len(parts)]
    ELSE LET parts == Split(TrimSuffix(chartUrl, sSlash), sSlash) IN parts[Len(parts)]

CacheEntry(chartUrl, version, chartName, downloadDir) ==
    [ChartURL |-> chartUrl, Version |-> version, ChartName |-> chartName,
     DownloadDir |-> downloadDir]

\* A chart directory: the version its Chart.yaml states, and the URL its
\* files were pulled from.
ChartDir(chartUrl, version) == [from |-> chartUrl, version |-> version]

\* pull.Version = chartVersion: the version of the chart that pull.Run
\* unpacks, the latest one for a constraint that admits every version.
sAnyVersion == <<">", "0">>
sLatestVersion == <<"2">>
ResolveVersion(chartVersion) ==
    IF chartVersion = sAnyVersion THEN sLatestVersion ELSE chartVersion

\* os.Stat of filepath.Join(dir, name): the directories are those of
\* ~/.helmhound.
StatOk(fs, dir, name) == dir = helmhoundDir /\ name \in DOMAIN fs

\* The entries of the cache file from the n-th on that checkCacheEntry
\* accepts, the first of them first.
RECURSIVE cacheHits(_, _, _, _, _)
cacheHits(cacheFile, fs, chartUrl, chartVersion, n) ==
    IF n > Len(cacheFile) THEN <<>>
    ELSE (IF /\ cacheFile[n].ChartURL = chartUrl
             /\ cacheFile[n].Version = chartVersion
             /\ StatOk(fs, cacheFile[n].DownloadDir, cacheFile[n].ChartName)
          THEN <<cacheFile[n]>> ELSE <<>>)
         \o cacheHits(cacheFile, fs, chartUrl, chartVersion, n + 1)

\* checkCacheEntry on the cache file as loaded.
checkCacheEntry(cacheFile, fs, chartUrl, chartVersion) ==
    LET hits == cacheHits(cacheFile, fs, chartUrl, chartVersion, 1)
    IN IF hits = <<>> THEN [exists |-> FALSE, entry |-> CacheEntry(<<>>, <<>>, <<>>, <<>>)]
       ELSE [exists |-> TRUE, entry |-> hits[1]]

\* The test of addCacheEntry for an entry that is there already.
entryExists(cacheFile, chartUrl, version) ==
    \E n \in 1..Len(cacheFile) :
        cacheFile[n].ChartURL = chartUrl /\ cacheFile[n].Version = version

\* fmt.Sprintf("%s-%s", baseName, version)
finalChartNameOf(baseName, version) == baseName \o sDash \o version

\* os.Rename(old, new) and os.RemoveAll(name) on the directories.
Rename(fs, old, new) ==
    [n \in (DOMAIN fs \ {old}) \cup {new} |-> IF n = new THEN fs[old] ELSE fs[n]]
RemoveAll(fs, name) == [n \in DOMAIN fs \ {name} |-> fs[n]]
WriteDir(fs, name, dir) == [n \in DOMAIN fs \cup {name} |-> IF n = name THEN dir ELSE fs[n]]

-----------------------------------------------------------------------------
(* The trees the differ is run on *)

MaxLen == 2

SeqsUpTo(S, n) == UNION { [1..k -> S] : k \in 0..n }

DiffLeaves == {Nil, IntV(1), IntV(2), StrV(sX), NaN}
DiffInnerMaps == {EmptyMap, Map1(sB, IntV(1)), Map1(sB, IntV(2)), Map1(sB, StrV(sX))}
DiffElems == {IntV(1), Map1(sB, IntV(1)), Map1(sB, IntV(2))}
DiffSlices == { SliceV(q) : q \in SeqsUpTo(DiffElems, MaxLen) }
DiffAValues == DiffLeaves \cup DiffInnerMaps \cup DiffSlices

\* Entries beside key "a": none, or one whose key has the text of a rendered
\* path ("a.b", "a[0]").
DiffExtras == {<<>>} \cup { [x \in {k} |-> v] : k \in {sADotB, sAIdx0}, v \in {IntV(1), IntV(2)} }

Merge(f, g) == [k \in DOMAIN f \cup DOMAIN g |-> IF k \in DOMAIN f THEN f[k] ELSE g[k]]

DiffRoots ==
    { MapV(e) : e \in DiffExtras } \cup
    { MapV(Merge([x \in {sA} |-> v], e)) : v \in DiffAValues, e \in DiffExtras }

-----------------------------------------------------------------------------
(* The differ as a state machine: one call on a drawn pair of trees *)

\* The renderer at rest.
RenderOff ==
    /\ manifestText = <<>>
    /\ modifiedText = <<>>
    /\ rop = "off"
    /\ originalManifest = Nil
    /\ modifiedManifest = Nil
    /\ groupedDiffs = <<>>

\* No chart downloaded, no DownloadChart running.
CacheOff ==
    /\ chartFs = <<>>
    /\ cacheYaml = <<>>
    /\ dcall = <<>>
    /\ ncalls = 0
    /\ succeeded = {}

\* The scanner at rest.
ScanOff ==
    /\ scanTemplates = <<>>
    /\ scanPath = <<>>
    /\ sop = "off"
    /\ scanRefs = <<>>
    /\ scanPanic = FALSE
    /\ scanText = <<>>

\* The helmwrap side at rest.
ValuesOff ==
    /\ heap = <<>>
    /\ values = Nil
    /\ vpc = "off"
    /\ vop = [name |-> "none", path |-> <<>>, valueType |-> ValueTypeUnknown, value |-> Nil]
    /\ verr = ErrNone
    /\ vres = Nil
    /\ vtype = ValueTypeUnknown
    /\ extracted = <<>>
    /\ before = Nil
    /\ resSnap = Nil

DiffInit ==
    /\ ValuesOff
    /\ ScanOff
    /\ RenderOff
    /\ CacheOff
    /\ left \in DiffRoots
    /\ right \in DiffRoots
    /\ dop = "none"
    /\ diffs = <<>>
    /\ diffPaths = <<>>
    /\ grouped = <<>>
    /\ groupedDetailed = <<>>

CallFindDifferencesWithValues ==
    /\ dop = "none"
    /\ \E d \in FindDifferencesWithValues(left, right) : diffs' = d
    /\ dop' = "FindDifferencesWithValues"
    /\ UNCHANGED <<left, right, diffPaths, grouped, groupedDetailed, hvars, svars, rvars, cvars>>

CallCompareYAML ==
    /\ dop = "none"
    /\ \E ps \in CompareYAML(left, right) : diffPaths' = ps
    /\ dop' = "CompareYAML"
    /\ UNCHANGED <<left, right, diffs, grouped, groupedDetailed, hvars, svars, rvars, cvars>>

CallCompareYAMLGrouped ==
    /\ dop = "none"
    /\ \E g \in CompareYAMLGrouped(left, right) : grouped' = g
    /\ dop' = "CompareYAMLGrouped"
    /\ UNCHANGED <<left, right, diffs, diffPaths, groupedDetailed, hvars, svars, rvars, cvars>>

CallCompareYAMLGroupedDetailed ==
    /\ dop = "none"
    /\ \E g \in CompareYAMLGroupedDetailed(left, right) : groupedDetailed' = g
    /\ dop' = "CompareYAMLGroupedDetailed"
    /\ UNCHANGED <<left, right, diffs, diffPaths, grouped, hvars, svars, rvars, cvars>>

DiffNext ==
    \/ CallFindDifferencesWithValues
    \/ CallCompareYAML
    \/ CallCompareYAMLGrouped
    \/ CallCompareYAMLGroupedDetailed

SpecDiff == DiffInit /\ [][DiffNext]_vars

-----------------------------------------------------------------------------
(* The values trees and call arguments of the helmwrap machine *)

ValLeaves == {Nil, StrV(sX), IntV(1), [tag |-> "int8", i |-> 127],
              FloatV(3), FloatV(-1), BoolV(TRUE)}
ValInnerMaps == {EmptyMap, Map1(sB, StrV(sX)), Map1(sB, IntV(1)),
                 Map1(sB, Map1(sB, IntV(1))), Map1(sTestKey, StrV(sTestValue))}
ValElems == {IntV(1), Map1(sB, IntV(1))}
\* A slice long enough to have an index of two digits.
LongLen == 11
ValLongSlice == SliceV([n \in 1..LongLen |-> IntV(1)])
ValSlices == { SliceV(q) : q \in SeqsUpTo(ValElems, MaxLen) } \cup {ValLongSlice}
ValAValues == ValLeaves \cup ValInnerMaps \cup ValSlices
ValExtras == {<<>>} \cup { [x \in {k} |-> IntV(1)] : k \in {sB, sADotB, sAIdx0} }

ValRoots ==
    { MapV(e) : e \in ValExtras } \cup
    { MapV(Merge([x \in {sA} |-> v], e)) : v \in ValAValues, e \in ValExtras }

\* "", "a", "b", "a.b", "a.b.b", ".", "a..b", "a[0]"
ValPaths == {sEmpty, sA, sB, sADotB, sADotB \o <<".", "b">>, <<".">>,
             <<"a", ".", ".", "b">>, sAIdx0}

ValueTypes == {ValueTypeString, ValueTypeInt, ValueTypeBool, ValueTypeSlice,
               ValueTypeMap, ValueTypeUnknown}

\* The types a caller can ask modifyValueAtPath for: ValueType is a uint, so
\* also one past the last constant.
RequestedTypes == ValueTypes \cup {ValueTypeUnknown + 1}

SetValues == {StrV(sX), IntV(2), Map1(sB, IntV(1))}

sModified == <<"m", "o", "d">>

\* The values determineValueType is handed: one of every type its switch
\* names, nil, and values of types it does not name.
ClassifyInputs ==
    { [tag |-> t, i |-> 1] : t \in IntTags } \cup
    { FloatV(3), NaN, [tag |-> "float32", nan |-> FALSE, h |-> 3] } \cup
    { Nil, StrV(sX), StrV(sEmpty), BoolV(TRUE), BoolV(FALSE),
      EmptyMap, Map1(sB, IntV(1)), SliceV(<<>>), SliceV(<<IntV(1)>>),
      [tag |-> "[]string", q |-> <<sX>>],
      [tag |-> "map[interface {}]interface {}", m |-> <<>>],
      [tag |-> "complex128", re |-> 1, im |-> 0] }

-----------------------------------------------------------------------------
(* The helmwrap functions as a state machine: one call on a drawn values
   tree, then the caller changing its own tree in place *)

DiffOff ==
    /\ left = Nil
    /\ right = Nil
    /\ dop = "off"
    /\ diffs = <<>>
    /\ diffPaths = <<>>
    /\ grouped = <<>>
    /\ groupedDetailed = <<>>

Init ==
    /\ DiffOff
    /\ ScanOff
    /\ RenderOff
    /\ CacheOff
    /\ \E t \in ValRoots :
          LET b == Build(<<>>, t)
          IN heap = b.h /\ values = b.v
    /\ vpc = "idle"
    /\ vop = [name |-> "none", path |-> <<>>, valueType |-> ValueTypeUnknown, value |-> Nil]
    /\ verr = ErrNone
    /\ vres = Nil
    /\ vtype = ValueTypeUnknown
    /\ extracted = <<>>
    /\ before = Nil
    /\ resSnap = Nil

CallModifyValueAtPath ==
    /\ vpc = "idle"
    /\ \E path \in ValPaths, valueType \in RequestedTypes :
          LET r == modifyValueAtPath(heap, values.a, path, valueType)
          IN /\ heap' = r.h
             /\ vres' = r.v
             /\ verr' = r.err
             /\ resSnap' = Deref(r.h, r.v)
             /\ vop' = [name |-> "modifyValueAtPath", path |-> path,
                        valueType |-> valueType, value |-> Nil]
    /\ before' = Deref(heap, values)
    /\ vpc' = "returned"
    /\ UNCHANGED <<values, vtype, extracted, dvars, svars, rvars, cvars>>

CallSetValueAtPath ==
    /\ vpc = "idle"
    /\ \E path \in ValPaths, t \in SetValues :
          LET arg == Build(heap, t)
              r == setValueAtPath(arg.h, values.a, path, arg.v)
          IN /\ heap' = r.h
             /\ verr' = r.err
             /\ vop' = [name |-> "setValueAtPath", path |-> path,
                        valueType |-> ValueTypeUnknown, value |-> arg.v]
    /\ before' = Deref(heap, values)
    /\ vres' = Nil
    /\ resSnap' = Nil
    /\ vpc' = "returned"
    /\ UNCHANGED <<values, vtype, extracted, dvars, svars, rvars, cvars>>

CallGetValueAtPath ==
    /\ vpc = "idle"
    /\ \E path \in ValPaths :
          LET r == getValueAtPath(heap, values, path)
          IN /\ vres' = r.v
             /\ verr' = r.err
             /\ resSnap' = Deref(heap, r.v)
             /\ vop' = [name |-> "getValueAtPath", path |-> path,
                        valueType |-> ValueTypeUnknown, value |-> Nil]
    /\ before' = Deref(heap, values)
    /\ vpc' = "returned"
    /\ UNCHANGED <<heap, values, vtype, extracted, dvars, svars, rvars, cvars>>

CallExtractValuePaths ==
    /\ vpc = "idle"
    /\ \E ps \in ExtractValuePaths(Deref(heap, values)) : extracted' = ps
    /\ vop' = [name |-> "ExtractValuePaths", path |-> <<>>,
               valueType |-> ValueTypeUnknown, value |-> Nil]
    /\ before' = Deref(heap, values)
    /\ vpc' = "returned"
    /\ UNCHANGED <<heap, values, verr, vres, vtype, resSnap, dvars, svars, rvars, cvars>>

CallGetValueType ==
    /\ vpc = "idle"
    /\ \E path \in ValPaths :
          LET r == GetValueType(heap, values, path)
          IN /\ vtype' = r.t
             /\ verr' = r.err
             /\ vop' = [name |-> "GetValueType", path |-> path,
                        valueType |-> ValueTypeUnknown, value |-> Nil]
    /\ before' = Deref(heap, values)
    /\ vres' = Nil
    /\ resSnap' = Nil
    /\ vpc' = "returned"
    /\ UNCHANGED <<heap, values, extracted, dvars, svars, rvars, cvars>>

CallDetermineValueType ==
    /\ vpc = "idle"
    /\ \E t \in ClassifyInputs :
          LET arg == Build(heap, t)
          IN /\ heap' = arg.h
             /\ vtype' = determineValueType(arg.v)
             /\ vop' = [name |-> "determineValueType", path |-> <<>>,
                        valueType |-> ValueTypeUnknown, value |-> arg.v]
    /\ before' = Deref(heap, values)
    /\ verr' = ErrNone
    /\ vres' = Nil
    /\ resSnap' = Nil
    /\ vpc' = "returned"
    /\ UNCHANGED <<values, extracted, dvars, svars, rvars, cvars>>

\* copied := make(map[string]interface{}); copyMap(original, copied)
CallCopyMap ==
    /\ vpc = "idle"
    /\ LET al == Alloc(heap, MapObj(<<>>))
           h2 == copyMap(al.h, values.a, al.a)
       IN /\ heap' = h2
          /\ vres' = MapRef(al.a)
          /\ resSnap' = Deref(h2, MapRef(al.a))
    /\ vop' = [name |-> "copyMap", path |-> <<>>,
               valueType |-> ValueTypeUnknown, value |-> Nil]
    /\ verr' = ErrNone
    /\ before' = Deref(heap, values)
    /\ vpc' = "returned"
    /\ UNCHANGED <<values, vtype, extracted, dvars, svars, rvars, cvars>>

\* After a copy was handed back, the caller assigns into a map or a slice of
\* its own tree.
CallerWrite ==
    /\ vpc = "returned"
    /\ vop.name \in {"modifyValueAtPath", "copyMap"}
    /\ verr = ErrNone
    /\ \E a \in Reach(heap, values) :
          \/ /\ heap[a].kind = "map"
             /\ \E key \in {sA, sB} : heap' = SetKey(heap, a, key, StrV(sModified))
          \/ /\ heap[a].kind = "array"
             /\ \E i \in 0..(Len(heap[a].q) - 1) :
                   heap' = SetIndex(heap, a, i, StrV(sModified))
    /\ vpc' = "written"
    /\ UNCHANGED <<values, vop, verr, vres, vtype, extracted, before, resSnap, dvars, svars, rvars, cvars>>

Next ==
    \/ CallModifyValueAtPath
    \/ CallSetValueAtPath
    \/ CallGetValueAtPath
    \/ CallExtractValuePaths
    \/ CallGetValueType
    \/ CallDetermineValueType
    \/ CallCopyMap
    \/ CallerWrite

Spec == Init /\ [][Next]_vars

-----------------------------------------------------------------------------
(* The templates and target paths the scanner is run on *)

sFileD == <<"d", ".", "y", "a", "m", "l">>
sFileS == <<"s", ".", "y", "a", "m", "l">>

sFoo == <<"f", "o", "o">>

\* The texts of a template file.
TemplateTexts ==
    { <<"n", "a", "m", "e", ":", " ", "{", "{", " ", ".", "V", "a", "l", "u", "e", "s", ".", "f", "o", "o", " ", "}", "}", "\n">>,
      <<"m", "e", "t", "a", "d", "a", "t", "a", ":", "\n", " ", " ", "n", "a", "m", "e", ":", " ", "{", "{", "-", " ", ".", "V", "a", "l", "u", "e", "s", ".", "f", "o", "o", " ", "}", "}">>,
      <<"n", "a", "m", "e", ":", " ", "{", "{", " ", ".", "V", "a", "l", "u", "e", "s", ".", "f", "o", "o", "B", "a", "r", " ", "}", "}", "\n", "x", ":", " ", "{", "{", " ", ".", "f", "o", "o", " ", "}", "}">>,
      <<"a", ":", " ", "{", "{", " ", ".", "V", "a", "l", "u", "e", "s", ".", "f", "o", "o", " ", "-", "}", "}", " ", "{", "{", " ", ".", "V", "a", "l", "u", "e", "s", ".", "f", "o", "o", " ", "}", "}">>,
      <<"x", ":", " ", "{", "{", " ", ".", "V", "a", "l", "u", "e", "s", ".", "a", ".", "b", " ", "}", "}", "\n", "y", ":", " ", "{", "{", " ", ".", "V", "a", "l", "u", "e", "s", ".", "a", "X", "b", " ", "}", "}">>,
      <<"x", ":", " ", "{", "{", " ", ".", "V", "a", "l", "u", "e", "s", ".", "a", "[", "0", "]", " ", "}", "}", "\n", "y", ":", " ", "{", "{", " ", ".", "V", "a", "l", "u", "e", "s", ".", "a", "[", "0", "]", "b", " ", "}", "}">>,
      <<"\"", ":", "8", "0", "8", "0", "\"", ":", " ", "{", "{", " ", ".", "V", "a", "l", "u", "e", "s", ".", "f", "o", "o", " ", "}", "}">>,
      <<"s", "p", "e", "c", ":", "\n", " ", " ", "l", "i", "f", "e", "c", "y", "c", "l", "e", ":", "\n", " ", " ", " ", " ", "h", "o", "o", "k", ":", " ", "{", "{", " ", ".", "V", "a", "l", "u", "e", "s", ".", "f", "o", "o", " ", "}", "}">>,
      <<"s", "p", "e", "c", ":", "\n", " ", " ", "t", "e", "m", "p", "l", "a", "t", "e", ":", "\n", "\n", " ", " ", " ", " ", "#", " ", "c", ":", " ", "d", "\n", " ", " ", " ", " ", "n", "a", "m", "e", ":", " ", "{", "{", " ", ".", "V", "a", "l", "u", "e", "s", ".", "f", "o", "o", " ", "}", "}">>,
      <<"a", ":", "\n", " ", " ", "b", ":", "\n", " ", " ", "c", ":", "\n", "\t", "\t", "d", ":", " ", "{", "{", " ", ".", "V", "a", "l", "u", "e", "s", ".", "f", "o", "o", " ", "}", "}">>,
      <<"x", ":", "\n", " ", " ", "-", " ", "{", "{", " ", ".", "V", "a", "l", "u", "e", "s", ".", "f", "o", "o", " ", "}", "}">>,
      <<"{", "{", " ", ".", "V", "a", "l", "u", "e", "s", ".", "f", "o", "o", " ", "}", "}", ":", " ", "y">>,
      <<>> }

\* map[string]string: no file, one file, or two.
TemplateSets ==
    UNION { [F -> TemplateTexts] : F \in SUBSET {sFileD, sFileS} }

\* "foo", "a.b", "a[0]" and the empty path.
TargetPaths == {sFoo, sADotB, sAIdx0, sEmpty}

\* Lists of references a caller hands to the formatter directly: the files
\* interleaved, with and without a manifest path.
FormatInputs ==
    { <<ValueReference(sFileD, 10, <<".", "V", "a", "l", "u", "e", "s", ".", "f", "o", "o">>, <<"n", "a", "m", "e", ":", " ", "{", "{", " ", ".", "V", "a", "l", "u", "e", "s", ".", "f", "o", "o", " ", "}", "}">>, <<>>),
        ValueReference(sFileS, 5, <<".", "V", "a", "l", "u", "e", "s", ".", "f", "o", "o">>, <<"n", "a", "m", "e", ":", " ", "{", "{", " ", ".", "V", "a", "l", "u", "e", "s", ".", "f", "o", "o", " ", "}", "}">>, <<".", "n", "a", "m", "e">>),
        ValueReference(sFileD, 12, <<".", "V", "a", "l", "u", "e", "s", ".", "f", "o", "o">>, <<"x", ":", " ", "{", "{", " ", ".", "V", "a", "l", "u", "e", "s", ".", "f", "o", "o", " ", "}", "}">>, <<".", "x">>)>>,
      <<ValueReference(sFileS, 5, <<".", "V", "a", "l", "u", "e", "s", ".", "f", "o", "o">>, <<"n", "a", "m", "e", ":", " ", "{", "{", " ", ".", "V", "a", "l", "u", "e", "s", ".", "f", "o", "o", " ", "}", "}">>, <<>>),
        ValueReference(sFileS, 8, <<".", "V", "a", "l", "u", "e", "s", ".", "f", "o", "o">>, <<"n", "a", "m", "e", ":", " ", "{", "{", " ", ".", "V", "a", "l", "u", "e", "s", ".", "f", "o", "o", " ", "}", "}">>, <<>>)>>,
      <<>> }

-----------------------------------------------------------------------------
(* The scanner as a state machine: a search over drawn templates, then the
   references formatted; or a list of references formatted directly *)

ScanInit ==
    /\ ValuesOff
    /\ DiffOff
    /\ RenderOff
    /\ CacheOff
    /\ scanTemplates \in TemplateSets
    /\ scanPath \in TargetPaths
    /\ sop = "none"
    /\ scanRefs = <<>>
    /\ scanPanic = FALSE
    /\ scanText = <<>>

CallSearchValueInTemplates ==
    /\ sop = "none"
    /\ \E r \in SearchValueInTemplates(scanTemplates, scanPath) :
          /\ scanRefs' = r.refs
          /\ scanPanic' = r.panic
    /\ sop' = "searched"
    /\ UNCHANGED <<scanTemplates, scanPath, scanText, hvars, dvars, rvars, cvars>>

\* FormatValueReferences on what the search returned, or on a list the
\* caller made.
CallFormatValueReferences ==
    /\ sop \in {"none", "searched"}
    /\ ~scanPanic
    /\ \E refs \in (IF sop = "searched" THEN {scanRefs} ELSE FormatInputs) :
          /\ scanRefs' = refs
          /\ \E result \in FormatValueReferences(refs) : scanText' = result
    /\ sop' = "formatted"
    /\ UNCHANGED <<scanTemplates, scanPath, scanPanic, hvars, dvars, rvars, cvars>>

ScanNext ==
    \/ CallSearchValueInTemplates
    \/ CallFormatValueReferences

SpecScan == ScanInit /\ [][ScanNext]_vars

-----------------------------------------------------------------------------
(* The renderer as a state machine: the release rendered from the values,
   the release rendered from the modified values, and the two manifest maps
   compared *)

MaxDocs == 2

DocTexts == {sDocKx1, sDocKx2, sDocK1, sDocV1, sDocList, sDocBlank}

\* release.Manifest: every document behind a separator line.
RECURSIVE ManifestOf(_)
ManifestOf(docs) ==
    IF docs = <<>> THEN <<>>
    ELSE sDocSeparator \o docs[1] \o ManifestOf(Tail(docs))

Manifests == { ManifestOf(docs) : docs \in SeqsUpTo(DocTexts, MaxDocs) }

RenderInit ==
    /\ ValuesOff
    /\ DiffOff
    /\ ScanOff
    /\ CacheOff
    /\ manifestText \in Manifests
    /\ modifiedText \in Manifests
    /\ rop = "none"
    /\ originalManifest = Nil
    /\ modifiedManifest = Nil
    /\ groupedDiffs = <<>>

CallRenderTemplate ==
    /\ rop = "none"
    /\ originalManifest' = manifestMapOf(manifestText)
    /\ rop' = "original"
    /\ UNCHANGED <<manifestText, modifiedText, modifiedManifest, groupedDiffs,
                   hvars, dvars, svars, cvars>>

CallRenderTemplateWithModifiedValue ==
    /\ rop = "original"
    /\ modifiedManifest' = manifestMapOf(modifiedText)
    /\ rop' = "modified"
    /\ UNCHANGED <<manifestText, modifiedText, originalManifest, groupedDiffs,
                   hvars, dvars, svars, cvars>>

\* yamldiff.CompareYAMLGroupedDetailed(originalManifest, modifiedManifest)
CompareManifests ==
    /\ rop = "modified"
    /\ \E g \in CompareYAMLGroupedDetailed(originalManifest, modifiedManifest) :
          groupedDiffs' = g
    /\ rop' = "compared"
    /\ UNCHANGED <<manifestText, modifiedText, originalManifest, modifiedManifest,
                   hvars, dvars, svars, cvars>>

RenderNext ==
    \/ CallRenderTemplate
    \/ CallRenderTemplateWithModifiedValue
    \/ CompareManifests

SpecRender == RenderInit /\ [][RenderNext]_vars

-----------------------------------------------------------------------------
(* DownloadChart as a state machine: processes that share ~/.helmhound, each
   running one call at a time, a step of a call being one access to the
   directories or to cache.yaml *)

MaxCalls == 3

Procs == {1, 2}

\* Two registries with a chart of the same name, and a chart repository.
ChartUrls == {<<"o", "c", "i", ":", "/", "/", "r", "/", "a", "p", "p">>, <<"o", "c", "i", ":", "/", "/", "q", "/", "a", "p", "p">>, <<"h", "t", "t", "p", "s", ":", "/", "/", "r", "/", "w", "e", "b", "/">>}
\* The versions asked for: two exact versions and a constraint.
ChartVersions == {<<"1">>, <<"2">>, sAnyVersion}

\* A process with no call made yet.
NoCall ==
    [pc |-> "idle", chartUrl |-> <<>>, chartVersion |-> <<>>, version |-> <<>>,
     finalChartName |-> <<>>, cacheFile |-> <<>>, pulled |-> FALSE,
     concurrent |-> FALSE, prior |-> {}, dir |-> <<>>, name |-> <<>>, err |-> sNoError]

CacheInit ==
    /\ ValuesOff
    /\ DiffOff
    /\ ScanOff
    /\ RenderOff
    /\ chartFs = <<>>
    /\ cacheYaml = <<>>
    /\ dcall = [p \in Procs |-> NoCall]
    /\ ncalls = 0
    /\ succeeded = {}

Running(c) == c.pc \notin {"idle", "done"}

\* return dir, name, nil
ReturnOk(c, dir, name) ==
    [c EXCEPT !.pc = "done", !.dir = dir, !.name = name, !.err = sNoError]

\* return "", "", err
ReturnErr(c, err) ==
    [c EXCEPT !.pc = "done", !.dir = <<>>, !.name = <<>>, !.err = err]

Success(c) ==
    [chartUrl |-> c.chartUrl, chartVersion |-> c.chartVersion, dir |-> c.dir, name |-> c.name]

\* What a step leaves in succeeded when it takes the call of p to c.
Record(c) ==
    IF c.pc = "done" /\ c.err = sNoError THEN succeeded \cup {Success(c)} ELSE succeeded

\* A call starts: the cache file is checked first.
DownloadChart(p) ==
    /\ ~Running(dcall[p])
    /\ ncalls < MaxCalls
    /\ \E chartUrl \in ChartUrls, chartVersion \in ChartVersions :
          LET hit == checkCacheEntry(cacheYaml, chartFs, chartUrl, chartVersion)
              others == \E q \in Procs \ {p} : Running(dcall[q])
              c0 == [NoCall EXCEPT !.chartUrl = chartUrl, !.chartVersion = chartVersion,
                                   !.concurrent = others,
                                   !.prior = { s \in succeeded :
                                                  /\ s.chartUrl = chartUrl
                                                  /\ s.chartVersion = chartVersion
                                                  /\ StatOk(chartFs, s.dir, s.name) }]
              c == IF hit.exists
                   THEN ReturnOk([c0 EXCEPT !.version = hit.entry.Version],
                                 hit.entry.DownloadDir, hit.entry.ChartName)
                   ELSE [c0 EXCEPT !.pc = "stat"]
          IN /\ dcall' = [q \in Procs |->
                             IF q = p THEN c
                             ELSE IF Running(dcall[q])
                             THEN [dcall[q] EXCEPT !.concurrent = TRUE]
                             ELSE dcall[q]]
             /\ succeeded' = Record(c)
    /\ ncalls' = ncalls + 1
    /\ UNCHANGED <<chartFs, cacheYaml, hvars, dvars, svars, rvars>>

\* os.Stat(actualChartDir): a directory left there is taken for the chart,
\* under the version its Chart.yaml states.
StatChartDir(p) ==
    /\ dcall[p].pc = "stat"
    /\ LET c == dcall[p]
           baseName == extractChartNameFromURL(c.chartUrl)
       IN IF baseName \in DOMAIN chartFs
          THEN LET existingVersion == chartFs[baseName].version
                   finalChartName == finalChartNameOf(baseName, existingVersion)
               IN /\ chartFs' = IF finalChartName \in DOMAIN chartFs THEN chartFs
                                 ELSE Rename(chartFs, baseName, finalChartName)
                  /\ dcall' = [dcall EXCEPT ![p] =
                                  [c EXCEPT !.pc = "add", !.version = existingVersion,
                                            !.finalChartName = finalChartName]]
          ELSE /\ dcall' = [dcall EXCEPT ![p] = [c EXCEPT !.pc = "pull"]]
               /\ UNCHANGED chartFs
    /\ UNCHANGED <<cacheYaml, ncalls, succeeded, hvars, dvars, svars, rvars>>

\* pull.Run(chartUrl): the chart of the version asked for is unpacked into
\* ~/.helmhound/baseName, or the pull fails.
PullRun(p) ==
    /\ dcall[p].pc = "pull"
    /\ LET c == dcall[p]
           baseName == extractChartNameFromURL(c.chartUrl)
       IN \E ok \in BOOLEAN :
             IF ok
             THEN /\ chartFs' = WriteDir(chartFs, baseName,
                                      ChartDir(c.chartUrl, ResolveVersion(c.chartVersion)))
                  /\ dcall' = [dcall EXCEPT ![p] = [c EXCEPT !.pc = "read", !.pulled = TRUE]]
                  /\ UNCHANGED succeeded
             ELSE /\ dcall' = [dcall EXCEPT ![p] =
                                  ReturnErr([c EXCEPT !.pulled = TRUE], sFailedToPull)]
                  /\ UNCHANGED <<chartFs, succeeded>>
    /\ UNCHANGED <<cacheYaml, ncalls, hvars, dvars, svars, rvars>>

\* readChartVersion(actualChartDir), then the directory is renamed to its
\* versioned name, or removed when that name is taken.
ReadChartVersion(p) ==
    /\ dcall[p].pc = "read"
    /\ LET c == dcall[p]
           baseName == extractChartNameFromURL(c.chartUrl)
       IN IF baseName \notin DOMAIN chartFs
          THEN /\ dcall' = [dcall EXCEPT ![p] = ReturnErr(c, sFailedToReadVersion)]
               /\ UNCHANGED chartFs
          ELSE LET actualVersion == chartFs[baseName].version
                   finalChartName == finalChartNameOf(baseName, actualVersion)
               IN /\ chartFs' = IF finalChartName \in DOMAIN chartFs
                                 THEN RemoveAll(chartFs, baseName)
                                 ELSE Rename(chartFs, baseName, finalChartName)
                  /\ dcall' = [dcall EXCEPT ![p] =
                                  [c EXCEPT !.pc = "add", !.version = actualVersion,
                                            !.finalChartName = finalChartName]]
    /\ UNCHANGED <<cacheYaml, ncalls, succeeded, hvars, dvars, svars, rvars>>

\* addCacheEntry, first half: loadCacheFile and the test for an entry that
\* is there already.
LoadCacheFile(p) ==
    /\ dcall[p].pc = "add"
    /\ LET c == [dcall[p] EXCEPT !.cacheFile = cacheYaml]
           r == IF entryExists(cacheYaml, c.chartUrl, c.version)
                THEN ReturnOk(c, helmhoundDir, c.finalChartName)
                ELSE [c EXCEPT !.pc = "save"]
       IN /\ dcall' = [dcall EXCEPT ![p] = r]
          /\ succeeded' = Record(r)
    /\ UNCHANGED <<chartFs, cacheYaml, ncalls, hvars, dvars, svars, rvars>>

\* addCacheEntry, second half: the entry appended to what was loaded, and
\* saveCacheFile; DownloadChart returns.
SaveCacheFile(p) ==
    /\ dcall[p].pc = "save"
    /\ LET c == dcall[p]
           newEntry == CacheEntry(c.chartUrl, c.version, c.finalChartName, helmhoundDir)
           r == ReturnOk(c, helmhoundDir, c.finalChartName)
       IN /\ cacheYaml' = Append(c.cacheFile, newEntry)
          /\ dcall' = [dcall EXCEPT ![p] = r]
          /\ succeeded' = Record(r)
    /\ UNCHANGED <<chartFs, ncalls, hvars, dvars, svars, rvars>>

CacheNext ==
    \E p \in Procs :
        \/ DownloadChart(p)
        \/ StatChartDir(p)
        \/ PullRun(p)
        \/ ReadChartVersion(p)
        \/ LoadCacheFile(p)
        \/ SaveCacheFile(p)

SpecCache == CacheInit /\ [][CacheNext]_vars

-----------------------------------------------------------------------------
(* Properties of the helmwrap functions *)

\* Get on a tree: the tree laid out on a heap of its own, and the tree the
\* value found stands for.
GetTree(t, path) ==
    LET b == Build(<<>>, t)
        g == getValueAtPath(b.h, b.v, path)
    IN [err |-> g.err, v |-> Deref(b.h, g.v)]

IsPrefix(p, q) == Len(p) <= Len(q) /\ SubSeq(q, 1, Len(p)) = p

\* Two paths one of which leads to, or below, the place of the other.
Related(p, q) ==
    IsPrefix(splitPath(p), splitPath(q)) \/ IsPrefix(splitPath(q), splitPath(p))

Returned(name) == vpc = "returned" /\ vop.name = name

\* C2: Get succeeds on the values tree at every path ExtractValuePaths
\* lists for it.
C2_GetSucceedsOnExtractedPaths ==
    Returned("ExtractValuePaths") =>
        \A n \in 1..Len(extracted) :
            getValueAtPath(heap, values, extracted[n]).err = ErrNone

\* C3: for a path that leads to a value and the type of that value, Mutate
\* succeeds, the value at the path differs from the one before, and the value
\* at every path leading elsewhere is the one before.
C3_MutateChangesOnlyTheTarget ==
    ( /\ Returned("modifyValueAtPath")
      /\ splitPath(vop.path) # <<>>
      /\ GetTree(before, vop.path).err = ErrNone
      /\ vop.valueType # ValueTypeUnknown
      /\ vop.valueType = determineValueType(GetTree(before, vop.path).v) ) =>
        /\ verr = ErrNone
        /\ GetTree(resSnap, vop.path).err = ErrNone
        /\ GetTree(resSnap, vop.path).v # GetTree(before, vop.path).v
        /\ \A q \in ValPaths :
              ~Related(q, vop.path) => GetTree(resSnap, q) = GetTree(before, q)

\* C4: after a Set that succeeded, Get at the same path succeeds and returns
\* the very value that was set.
C4_GetAfterSet ==
    (Returned("setValueAtPath") /\ verr = ErrNone) =>
        LET g == getValueAtPath(heap, values, vop.path)
        IN g.err = ErrNone /\ g.v = vop.value

\* A Set through two missing intermediate keys, and one that stored a map.
C4_Witness ==
    /\ Returned("setValueAtPath")
    /\ verr = ErrNone
    /\ Len(splitPath(vop.path)) = 3
    /\ sA \notin DOMAIN before.m
    /\ vop.value.tag = "map"
    /\ getValueAtPath(heap, values, vop.path).v = vop.value

\* C5: Mutate leaves the caller's tree as it was, whether it succeeds or
\* fails; the tree it (or copyMap) returns shares no map or slice with the
\* caller's, and stays as returned when the caller assigns into its own tree.
C5_MutateWorksOnADeepCopy ==
    /\ Returned("modifyValueAtPath") => Deref(heap, values) = before
    /\ (vop.name \in {"modifyValueAtPath", "copyMap"} /\ verr = ErrNone) =>
          /\ Reach(heap, vres) \cap Reach(heap, values) = {}
          /\ Deref(heap, vres) = resSnap

\* The caller changed a nested map or slice of its tree after a successful
\* Mutate below key a.
C5_Witness ==
    /\ vpc = "written"
    /\ vop.name = "modifyValueAtPath"
    /\ verr = ErrNone
    /\ Len(splitPath(vop.path)) >= 2
    /\ Deref(heap, values).m[sA] # before.m[sA]
    /\ before.m[sA].tag = "map"
    /\ Deref(heap, vres) = resSnap

\* C6: a Set or Mutate that fails, by an error or a panic, leaves the
\* caller's tree as it was, and a failed Mutate returns no tree.
C6_FailureLeavesTreeUntouched ==
    ( /\ vpc = "returned"
      /\ vop.name \in {"setValueAtPath", "modifyValueAtPath"}
      /\ verr # ErrNone ) =>
        /\ Deref(heap, values) = before
        /\ vop.name = "modifyValueAtPath" => vres = Nil

\* A Set that failed partway along a.b.b, at a scalar under a.
C6_Witness ==
    /\ Returned("setValueAtPath")
    /\ verr = ErrNavigate
    /\ Len(splitPath(vop.path)) = 3
    /\ sA \in DOMAIN before.m
    /\ Deref(heap, values) = before

-----------------------------------------------------------------------------
(* Properties of the differ *)

\* A location is a sequence of segments, a key [k |-> key] or an index
\* [i |-> n], whatever text it renders to.
KeySeg(k) == [k |-> k]
IdxSeg(n) == [i |-> n]

RECURSIVE Render(_)
Render(loc) ==
    IF loc = <<>> THEN <<>>
    ELSE LET base == Render(SubSeq(loc, 1, Len(loc) - 1))
             seg == loc[Len(loc)]
         IN IF "k" \in DOMAIN seg THEN buildPath(base, seg.k)
            ELSE buildArrayPath(base, seg.i)

\* The pairs of values the walk compares, each with its location: the two
\* roots, and the values under every key or index present on both sides.
RECURSIVE Visited(_, _, _)
Visited(loc, l, r) ==
    {[loc |-> loc, l |-> l, r |-> r]} \cup
    (IF l.tag = "map" /\ r.tag = "map"
     THEN UNION { Visited(Append(loc, KeySeg(k)), l.m[k], r.m[k])
                  : k \in DOMAIN l.m \cap DOMAIN r.m }
     ELSE IF l.tag = "slice" /\ r.tag = "slice"
     THEN UNION { Visited(Append(loc, IdxSeg(n - 1)), l.q[n], r.q[n])
                  : n \in 1..(IF Len(l.q) < Len(r.q) THEN Len(l.q) ELSE Len(r.q)) }
     ELSE {})

TypeChanged(v) == v.l # Nil /\ v.r # Nil /\ v.l.tag # v.r.tag

\* Path p lies below path q: q followed by a key or an index segment.
Below(p, q) ==
    /\ Len(p) > Len(q)
    /\ SubSeq(p, 1, Len(q)) = q
    /\ q = <<>> \/ p[Len(q) + 1] \in {".", "["}

HasRecord(path, dv) == path \in DOMAIN diffs /\ diffs[path] = dv

\* C1: comparing a tree against itself yields no difference, from
\* FindDifferencesWithValues and from CompareYAML.
C1_CompareSelfIsEmpty ==
    left = right =>
        /\ dop = "FindDifferencesWithValues" => diffs = <<>>
        /\ dop = "CompareYAML" => diffPaths = <<>>

\* C7: where the two sides hold values of different dynamic types, the result
\* has at that path one Modified record with both raw values, and no record
\* at a path below it.
C7_TypeChangeIsModified ==
    dop = "FindDifferencesWithValues" =>
        \A v \in Visited(<<>>, left, right) :
            TypeChanged(v) =>
                /\ HasRecord(Render(v.loc), DiffValue(v.l, v.r, DiffTypeModified))
                /\ \A p \in DOMAIN diffs : ~Below(p, Render(v.loc))

\* C8: two sequences are compared by position: an index past the end of left
\* is Added with right's element, an index past the end of right is Removed
\* with left's element; [{b:1},{b:2}] against [{b:1}] under key a yields the
\* single record a[1] Removed.
C8_SlicesArePositional ==
    dop = "FindDifferencesWithValues" =>
        /\ \A v \in Visited(<<>>, left, right) :
              (v.l.tag = "slice" /\ v.r.tag = "slice") =>
                 \A n \in 1..Max(Len(v.l.q), Len(v.r.q)) :
                    LET p == Render(Append(v.loc, IdxSeg(n - 1)))
                    IN /\ n > Len(v.l.q) =>
                            HasRecord(p, DiffValue(Nil, v.r.q[n], DiffTypeAdded))
                       /\ n > Len(v.r.q) =>
                            HasRecord(p, DiffValue(v.l.q[n], Nil, DiffTypeRemoved))
        /\ ( /\ left = Map1(sA, SliceV(<<Map1(sB, IntV(1)), Map1(sB, IntV(2))>>))
             /\ right = Map1(sA, SliceV(<<Map1(sB, IntV(1))>>)) ) =>
              diffs = [p \in {<<"a", "[", "1", "]">>} |->
                          DiffValue(Map1(sB, IntV(2)), Nil, DiffTypeRemoved)]

\* The locations that differ, with the record each one calls for.
RECURSIVE Differing(_, _, _)
Differing(loc, l, r) ==
    IF l = Nil /\ r = Nil THEN {}
    ELSE IF l = Nil THEN {[loc |-> loc, dv |-> DiffValue(Nil, r, DiffTypeAdded)]}
    ELSE IF r = Nil THEN {[loc |-> loc, dv |-> DiffValue(l, Nil, DiffTypeRemoved)]}
    ELSE IF l.tag # r.tag THEN {[loc |-> loc, dv |-> DiffValue(l, r, DiffTypeModified)]}
    ELSE IF l.tag = "map"
    THEN UNION { LET at == Append(loc, KeySeg(k))
                 IN IF k \notin DOMAIN r.m
                    THEN {[loc |-> at, dv |-> DiffValue(l.m[k], Nil, DiffTypeRemoved)]}
                    ELSE IF k \notin DOMAIN l.m
                    THEN {[loc |-> at, dv |-> DiffValue(Nil, r.m[k], DiffTypeAdded)]}
                    ELSE Differing(at, l.m[k], r.m[k])
                 : k \in DOMAIN l.m \cup DOMAIN r.m }
    ELSE IF l.tag = "slice"
    THEN UNION { LET at == Append(loc, IdxSeg(n - 1))
                 IN IF n > Len(l.q)
                    THEN {[loc |-> at, dv |-> DiffValue(Nil, r.q[n], DiffTypeAdded)]}
                    ELSE IF n > Len(r.q)
                    THEN {[loc |-> at, dv |-> DiffValue(l.q[n], Nil, DiffTypeRemoved)]}
                    ELSE Differing(at, l.q[n], r.q[n])
                 : n \in 1..Max(Len(l.q), Len(r.q)) }
    ELSE IF ~DeepEqual(l, r) THEN {[loc |-> loc, dv |-> DiffValue(l, r, DiffTypeModified)]}
    ELSE {}

\* C9: every differing location has its own record in the result: no two of
\* them render to the same key, so none is overwritten or lost.
C9_OneRecordPerLocation ==
    dop = "FindDifferencesWithValues" =>
        LET locs == Differing(<<>>, left, right)
        IN /\ \A x \in locs : HasRecord(Render(x.loc), x.dv)
           /\ \A x, y \in locs : x.loc # y.loc => Render(x.loc) # Render(y.loc)
           /\ Cardinality(DOMAIN diffs) = Cardinality(locs)

\* Key k is what precedes the first '.' of path p: the whole of p when p has
\* no '.'.
IsManifestKeyOf(k, p) ==
    /\ Len(k) <= Len(p)
    /\ SubSeq(p, 1, Len(k)) = k
    /\ \A n \in 1..Len(k) : k[n] # "."
    /\ Len(k) = Len(p) \/ p[Len(k) + 1] = "."

\* C10: every item is filed under the text before the first '.' of its path,
\* and shows the marker exactly when its path is that key, else the path.
C10_GroupKeyAndDisplayText ==
    dop = "CompareYAMLGroupedDetailed" =>
        \A k \in DOMAIN groupedDetailed :
            \A n \in 1..Len(groupedDetailed[k]) :
                LET item == groupedDetailed[k][n]
                IN /\ IsManifestKeyOf(k, item.Path)
                   /\ item.DisplayText = AffectsEntireManifest <=> item.Path = k
                   /\ item.Path # k => item.DisplayText = item.Path

\* A grouped result with an item that affects a whole manifest and an item
\* for a field below a manifest key.
C10_Witness ==
    /\ dop = "CompareYAMLGroupedDetailed"
    /\ \E k \in DOMAIN groupedDetailed :
          /\ \E n \in 1..Len(groupedDetailed[k]) :
                groupedDetailed[k][n] = GroupedDifferenceItem(k, AffectsEntireManifest)
          /\ \E n \in 1..Len(groupedDetailed[k]) :
                /\ groupedDetailed[k][n].Path # k
                /\ groupedDetailed[k][n].DisplayText = groupedDetailed[k][n].Path

\* The places of a grouped result: a group key with a position in its list.
Slots(g) == UNION { { <<k, n>> : n \in 1..Len(g[k]) } : k \in DOMAIN g }

\* C11: the paths listed over all groups of CompareYAMLGrouped, and of
\* CompareYAMLGroupedDetailed, are exactly the record paths of
\* FindDifferencesWithValues on the same trees, each path in one group only
\* and once only.
C11_GroupedPartitionsCompare ==
    /\ dop = "CompareYAMLGrouped" =>
          /\ \A d \in FindDifferencesWithValues(left, right) :
                { grouped[s[1]][s[2]] : s \in Slots(grouped) } = DOMAIN d
          /\ \A s, t \in Slots(grouped) :
                grouped[s[1]][s[2]] = grouped[t[1]][t[2]] => s = t
    /\ dop = "CompareYAMLGroupedDetailed" =>
          /\ \A d \in FindDifferencesWithValues(left, right) :
                { groupedDetailed[s[1]][s[2]].Path : s \in Slots(groupedDetailed) } = DOMAIN d
          /\ \A s, t \in Slots(groupedDetailed) :
                groupedDetailed[s[1]][s[2]].Path = groupedDetailed[t[1]][t[2]].Path => s = t

-----------------------------------------------------------------------------
(* Properties of the path extractor, the classifier and the accessors *)

\* The locations of the nodes of a tree below location loc.
RECURSIVE NodesBelow(_, _)
NodesBelow(loc, t) ==
    IF t.tag = "map"
    THEN UNION { {Append(loc, KeySeg(k))} \cup NodesBelow(Append(loc, KeySeg(k)), t.m[k])
                 : k \in DOMAIN t.m }
    ELSE IF t.tag = "slice"
    THEN UNION { {Append(loc, IdxSeg(n - 1))} \cup NodesBelow(Append(loc, IdxSeg(n - 1)), t.q[n])
                 : n \in 1..Len(t.q) }
    ELSE {}

\* C12: ExtractValuePaths lists one path per node below the root: prefix.key
\* for a key (key at the root), and for index i the prefix followed by '[',
\* the decimal rendering of i and ']'; nothing else is listed.
C12_OnePathPerNode ==
    Returned("ExtractValuePaths") =>
        LET locs == NodesBelow(<<>>, before)
        IN /\ Len(extracted) = Cardinality(locs)
           /\ \A loc \in locs : \E n \in 1..Len(extracted) : extracted[n] = Render(loc)
           /\ \A n \in 1..Len(extracted) : \E loc \in locs : extracted[n] = Render(loc)

\* C13: determineValueType answers for every value: String for a string, Int
\* for an integer of any width and for a float, Bool for a boolean, Slice for
\* a sequence, Map for a mapping, and Unknown for anything else, nil included.
C13_ClassifyIsTotal ==
    Returned("determineValueType") =>
        LET tag == vop.value.tag
            integers == {"int", "int8", "int16", "int32", "int64",
                         "uint", "uint8", "uint16", "uint32", "uint64"}
            floats == {"float32", "float64"}
        IN /\ verr = ErrNone
           /\ vtype \in ValueTypes
           /\ tag = "string" => vtype = ValueTypeString
           /\ tag \in integers \cup floats => vtype = ValueTypeInt
           /\ tag = "bool" => vtype = ValueTypeBool
           /\ tag = "slice" => vtype = ValueTypeSlice
           /\ tag = "map" => vtype = ValueTypeMap
           /\ tag \notin integers \cup floats \cup {"string", "bool", "slice", "map"} =>
                 vtype = ValueTypeUnknown

\* The float 1.5 was classified, as Int.
C13_Witness ==
    /\ Returned("determineValueType")
    /\ vop.value = FloatV(3)
    /\ vtype = ValueTypeInt

\* The segments of a path: its maximal non-empty runs of characters other
\* than '.', from left to right.
Runs(path) ==
    { r \in (1..Len(path)) \X (1..Len(path)) :
        /\ r[1] <= r[2]
        /\ \A n \in r[1]..r[2] : path[n] # "."
        /\ r[1] = 1 \/ path[r[1] - 1] = "."
        /\ r[2] = Len(path) \/ path[r[2] + 1] = "." }

Segments(path) ==
    [k \in 1..Cardinality(Runs(path)) |->
        LET r == CHOOSE x \in Runs(path) :
                     Cardinality({ y \in Runs(path) : y[1] < x[1] }) = k - 1
        IN SubSeq(path, r[1], r[2])]

\* Where following the first k segments from tree t leads: a value, or the
\* failure met on the way.
RECURSIVE Follow(_, _, _)
Follow(t, segs, k) ==
    IF k = 0 THEN [at |-> t, err |-> ErrNone]
    ELSE LET prev == Follow(t, segs, k - 1)
         IN IF prev.err # ErrNone THEN prev
            ELSE IF prev.at.tag # "map" THEN [at |-> Nil, err |-> ErrNonMap]
            ELSE IF segs[k] \notin DOMAIN prev.at.m THEN [at |-> Nil, err |-> ErrKeyNotFound]
            ELSE [at |-> prev.at.m[segs[k]], err |-> ErrNone]

\* C14: Get returns the whole tree for the empty path; otherwise it follows
\* the segments between the '.'s through mappings, fails with not-found at a
\* segment the current mapping lacks, fails with not-traversable where the
\* current value is no mapping and a segment remains, and else returns the
\* value reached.  A '[' or ']' is a character of its segment.
C14_GetWalksMappings ==
    Returned("getValueAtPath") =>
        LET segs == Segments(vop.path)
            want == Follow(before, segs, Len(segs))
        IN /\ vop.path = <<>> => (verr = ErrNone /\ resSnap = before)
           /\ verr = want.err
           /\ resSnap = want.at
           /\ verr # ErrNone => vres = Nil

\* Get of a.b.b met a scalar at a.b.
C14_Witness ==
    /\ Returned("getValueAtPath")
    /\ vop.path = sADotB \o <<".", "b">>
    /\ sA \in DOMAIN before.m
    /\ before.m[sA] = Map1(sB, IntV(1))
    /\ verr = ErrNonMap

\* Mapping f with key k holding v.
WithKey(f, k, v) == [x \in DOMAIN f \cup {k} |-> IF x = k THEN v ELSE f[x]]

\* From segment k on, every intermediate key of segs is missing in t or
\* holds a mapping.
RECURSIVE Passable(_, _, _)
Passable(t, segs, k) ==
    \/ k >= Len(segs)
    \/ segs[k] \notin DOMAIN t.m
    \/ /\ t.m[segs[k]].tag = "map"
       /\ Passable(t.m[segs[k]], segs, k + 1)

\* Tree t with v stored along segs from segment k on, a missing
\* intermediate key standing for an empty mapping.
RECURSIVE StoredAt(_, _, _, _)
StoredAt(t, segs, k, v) ==
    IF k = Len(segs) THEN MapV(WithKey(t.m, segs[k], v))
    ELSE LET sub == IF segs[k] \in DOMAIN t.m THEN t.m[segs[k]] ELSE EmptyMap
         IN MapV(WithKey(t.m, segs[k], StoredAt(sub, segs, k + 1, v)))

\* C15: Set fails with the empty-path error for the empty path; for a
\* non-empty path whose intermediate keys are missing or hold mappings it
\* succeeds, leaving the tree with an empty mapping made for every missing
\* intermediate key and the value under the final key, whatever was there.
C15_SetCreatesAndOverwrites ==
    Returned("setValueAtPath") =>
        LET segs == Segments(vop.path)
        IN /\ vop.path = <<>> => verr = ErrEmptyPath
           /\ (vop.path # <<>> /\ Passable(before, segs, 1)) =>
                 /\ verr = ErrNone
                 /\ Len(segs) > 0 =>
                       Deref(heap, values) =
                           StoredAt(before, segs, 1, Deref(heap, vop.value))

\* C16: a Mutate that succeeded left at the path: for String the old string
\* behind "helmhound-test-"; for Int the old number plus one, a float first
\* truncated toward zero; for Bool the negation; for Slice the old elements
\* in order and then "helmhound-test-element"; for Map every old entry and
\* the entry "helmhound-test-key": "helmhound-test-value".
C16_MutatePerturbsByType ==
    (Returned("modifyValueAtPath") /\ verr = ErrNone) =>
        LET old == GetTree(before, vop.path).v
            new == GetTree(resSnap, vop.path).v
        IN /\ vop.valueType = ValueTypeString =>
                 new = StrV(sTestPrefix \o old.s)
           /\ (vop.valueType = ValueTypeInt /\ old.tag \notin {"float32", "float64"}) =>
                 new.tag = old.tag /\ new.i = old.i + 1
           /\ (vop.valueType = ValueTypeInt /\ old.tag \in {"float32", "float64"}) =>
                 /\ new.tag = "int"
                 /\ LET n == new.i - 1
                    IN IF old.h >= 0 THEN 2 * n <= old.h /\ old.h < 2 * (n + 1)
                       ELSE 2 * (n - 1) < old.h /\ old.h <= 2 * n
           /\ vop.valueType = ValueTypeBool => new = BoolV(~old.b)
           /\ vop.valueType = ValueTypeSlice =>
                 new = SliceV(Append(old.q, StrV(sTestElement)))
           /\ vop.valueType = ValueTypeMap =>
                 /\ new.tag = "map"
                 /\ DOMAIN new.m = DOMAIN old.m \cup {sTestKey}
                 /\ \A k \in DOMAIN old.m : new.m[k] = old.m[k]
                 /\ new.m[sTestKey] = StrV(sTestValue)

-----------------------------------------------------------------------------
(* Properties of the scanner and the formatter *)

\* ".Values." followed by the path, character for character.
Reference(path) == sDotValues \o sDot \o path

\* A word boundary after the first n characters of line: one of the
\* characters on its two sides is a word character and the other is not.
BoundaryAfter(line, n) ==
    (n >= 1 /\ line[n] \in WordChars) # (n < Len(line) /\ line[n + 1] \in WordChars)

\* line holds the reference to path somewhere, a word boundary right after.
Occurs(line, path) ==
    \E pos \in 0..Len(line) :
        /\ pos + Len(Reference(path)) <= Len(line)
        /\ SubSeq(line, pos + 1, pos + Len(Reference(path))) = Reference(path)
        /\ BoundaryAfter(line, pos + Len(Reference(path)))

Matches(path, line) == FindAllStringIndex(createSearchPatterns(path)[1], line) # <<>>

\* C18: a line of a file has a reference in the result exactly if it holds
\* ".Values." followed by the target path as written and then a word
\* boundary, every reference carrying that text; foo is found in
\* "{{ .Values.foo }}", "{{- .Values.foo }}" and "{{ .Values.foo -}}", not in
\* ".Values.fooBar" nor in a reference without ".Values.".
C18_PatternMatchesLiteralPath ==
    (sop = "searched" /\ ~scanPanic) =>
        /\ \A f \in DOMAIN scanTemplates :
              LET lines == Split(scanTemplates[f], sNewline)
              IN \A n \in 1..Len(lines) :
                    (\E k \in 1..Len(scanRefs) :
                        scanRefs[k].File = f /\ scanRefs[k].Line = n)
                    <=> Occurs(lines[n], scanPath)
        /\ \A k \in 1..Len(scanRefs) : scanRefs[k].Content = Reference(scanPath)
        /\ Matches(sFoo, <<"{", "{", " ", ".", "V", "a", "l", "u", "e", "s", ".", "f", "o", "o", " ", "}", "}">>)
        /\ Matches(sFoo, <<"{", "{", "-", " ", ".", "V", "a", "l", "u", "e", "s", ".", "f", "o", "o", " ", "}", "}">>)
        /\ Matches(sFoo, <<"{", "{", " ", ".", "V", "a", "l", "u", "e", "s", ".", "f", "o", "o", " ", "-", "}", "}">>)
        /\ ~Matches(sFoo, <<"{", "{", " ", ".", "V", "a", "l", "u", "e", "s", ".", "f", "o", "o", "B", "a", "r", " ", "}", "}">>)
        /\ ~Matches(sFoo, <<"{", "{", " ", ".", "f", "o", "o", " ", "}", "}">>)

\* A search for a.b in a file that refers to a.b on its first line and to
\* aXb on its second found the first line only.
C18_Witness ==
    /\ sop = "searched"
    /\ ~scanPanic
    /\ scanPath = sADotB
    /\ DOMAIN scanTemplates = {sFileD}
    /\ scanTemplates[sFileD] = <<"x", ":", " ", "{", "{", " ", ".", "V", "a", "l", "u", "e", "s", ".", "a", ".", "b", " ", "}", "}", "\n", "y", ":", " ", "{", "{", " ", ".", "V", "a", "l", "u", "e", "s", ".", "a", "X", "b", " ", "}", "}">>
    /\ Len(scanRefs) = 1
    /\ scanRefs[1].Line = 1

\* The distinct files of the first n references, each where it first appears.
RECURSIVE FirstSeen(_, _)
FirstSeen(refs, n) ==
    IF n = 0 THEN <<>>
    ELSE LET seen == FirstSeen(refs, n - 1)
         IN IF \E k \in 1..Len(seen) : seen[k] = refs[n].File THEN seen
            ELSE Append(seen, refs[n].File)

\* The orders the distinct files of refs can be written in.
FileOrders(refs) ==
    LET files == { refs[k].File : k \in 1..Len(refs) }
    IN { order \in [1..Cardinality(files) -> files] :
           \A i, j \in 1..Cardinality(files) : i # j => order[i] # order[j] }

\* "{line}L: {fieldPath, or matchedText when fieldPath is empty}" and a
\* newline, for every reference of file from the n-th on, in input order.
RECURSIVE ReferenceLines(_, _, _)
ReferenceLines(refs, file, n) ==
    IF n > Len(refs) THEN <<>>
    ELSE (IF refs[n].File # file THEN <<>>
          ELSE Itoa(refs[n].Line) \o <<"L", ":", " ">>
               \o (IF refs[n].ManifestPath = <<>> THEN refs[n].Content
                   ELSE refs[n].ManifestPath)
               \o <<"\n">>)
         \o ReferenceLines(refs, file, n + 1)

\* The header line of each file of order from the n-th on, each followed by
\* the lines of its references.
RECURSIVE FileBlocks(_, _, _)
FileBlocks(refs, order, n) ==
    IF n > Len(order) THEN <<>>
    ELSE <<"=", "=", "=", " ">> \o order[n] \o <<" ", "=", "=", "=", "\n">>
         \o ReferenceLines(refs, order[n], 1)
         \o FileBlocks(refs, order, n + 1)

\* C19 as stated: the formatted text has the files in the order they first
\* appear in the input list, each with a header line "=== file ===" and then
\* one line per reference of that file in input order; the empty list gives
\* "No references found for the specified value.".
C19_GroupsInFirstSeenOrder ==
    sop = "formatted" =>
        scanText = IF scanRefs = <<>> THEN sNoReferences
                   ELSE FileBlocks(scanRefs, FirstSeen(scanRefs, Len(scanRefs)), 1)

\* C19: the formatted text has every distinct file of the input once, in
\* some order, each with a header line "=== file ===" and then one line
\* "{line}L: {fieldPath, or matchedText when fieldPath is empty}" per
\* reference of that file in input order; the empty list gives
\* "No references found for the specified value.".
C19_GroupsByFileInSomeOrder ==
    sop = "formatted" =>
        IF scanRefs = <<>> THEN scanText = sNoReferences
        ELSE \E order \in FileOrders(scanRefs) :
                scanText = FileBlocks(scanRefs, order, 1)

\* References of d.yaml, s.yaml and d.yaml again, the first without a field
\* path, were formatted with the group of s.yaml written first.
C19_Witness ==
    /\ sop = "formatted"
    /\ Len(scanRefs) = 3
    /\ scanRefs[1].File = sFileD
    /\ scanRefs[1].ManifestPath = <<>>
    /\ scanRefs[2].File = sFileS
    /\ scanRefs[3].File = sFileD
    /\ scanText = FileBlocks(scanRefs, <<sFileS, sFileD>>, 1)

\* C20: Compare of any two trees returns a diff set, and Scan of any set of
\* template texts for any target path returns a list of references (an
\* empty one included); neither aborts.
C20_CompareAndScanAreTotal ==
    /\ dop # "off" => /\ FindDifferencesWithValues(left, right) # {}
                      /\ CompareYAML(left, right) # {}
    /\ sop = "none" => SearchValueInTemplates(scanTemplates, scanPath) # {}
    /\ sop = "searched" => ~scanPanic

-----------------------------------------------------------------------------
(* Properties of Set on every path string *)

\* The errors setValueAtPath returns as an error value.
SetErrors == {ErrEmptyPath, ErrNavigate}

\* C27: Set on any tree and any non-empty path string, a path made of dots
\* only included, returns success or an error value; it never aborts with a
\* runtime fault.
C27_SetIsTotal ==
    (Returned("setValueAtPath") /\ vop.path # <<>>) =>
        verr \in {ErrNone} \cup SetErrors

-----------------------------------------------------------------------------
(* Properties of the records of the differ *)

\* C22: where Compare meets two mappings, every key of either side is dealt
\* with: a key of left only has a Removed record at path.key, a key of right
\* only has an Added record at path.key, and a key of both has a record at
\* path.key only if comparing its two values finds a difference.
C22_MappingsCompareOverKeyUnion ==
    dop = "FindDifferencesWithValues" =>
        \A v \in Visited(<<>>, left, right) :
            (v.l.tag = "map" /\ v.r.tag = "map") =>
                \A k \in DOMAIN v.l.m \cup DOMAIN v.r.m :
                    LET at == Append(v.loc, KeySeg(k))
                    IN /\ k \notin DOMAIN v.r.m =>
                            HasRecord(Render(at), DiffValue(v.l.m[k], Nil, DiffTypeRemoved))
                       /\ k \notin DOMAIN v.l.m =>
                            HasRecord(Render(at), DiffValue(Nil, v.r.m[k], DiffTypeAdded))
                       /\ (k \in DOMAIN v.l.m \cap DOMAIN v.r.m /\ Render(at) \in DOMAIN diffs) =>
                            Differing(at, v.l.m[k], v.r.m[k]) # {}

\* C23: every record has the shape of its kind: Added has a null left and a
\* non-null right, Removed a non-null left and a null right, Modified two
\* non-null sides; mappings with a key whose value is null included.
C23_RecordsAreWellShaped ==
    dop = "FindDifferencesWithValues" =>
        \A p \in DOMAIN diffs :
            /\ diffs[p].Type = DiffTypeAdded => (diffs[p].Left = Nil /\ diffs[p].Right # Nil)
            /\ diffs[p].Type = DiffTypeRemoved => (diffs[p].Left # Nil /\ diffs[p].Right = Nil)
            /\ diffs[p].Type = DiffTypeModified => (diffs[p].Left # Nil /\ diffs[p].Right # Nil)

-----------------------------------------------------------------------------
(* Properties of the references of a search *)

\* Where the reference to path, a word boundary after it, first starts in
\* line at or after position pos (0-based); -1 when it does not.
RECURSIVE FirstOccurrence(_, _, _)
FirstOccurrence(line, path, pos) ==
    IF pos + Len(Reference(path)) > Len(line) THEN -1
    ELSE IF /\ SubSeq(line, pos + 1, pos + Len(Reference(path))) = Reference(path)
            /\ BoundaryAfter(line, pos + Len(Reference(path)))
         THEN pos
         ELSE FirstOccurrence(line, path, pos + 1)

\* The number of non-overlapping matches in line from position pos on.
RECURSIVE MatchCount(_, _, _)
MatchCount(line, path, pos) ==
    LET at == FirstOccurrence(line, path, pos)
    IN IF at < 0 THEN 0
       ELSE 1 + MatchCount(line, path, at + Len(Reference(path)))

\* Line number, matched text and trimmed line of the references called for
\* by the lines of a file from the n-th on.
RECURSIVE LineReferences(_, _, _)
LineReferences(lines, path, n) ==
    IF n > Len(lines) THEN <<>>
    ELSE [k \in 1..MatchCount(lines[n], path, 0) |->
             <<n, Reference(path), TrimSpace(lines[n])>>]
         \o LineReferences(lines, path, n + 1)

\* Line number, matched text and trimmed line of the references of file in
\* refs, in the order of refs.
RECURSIVE ReferencesOf(_, _, _)
ReferencesOf(refs, file, n) ==
    IF n > Len(refs) THEN <<>>
    ELSE (IF refs[n].File = file
          THEN <<<<refs[n].Line, refs[n].Content, refs[n].FullLine>>>>
          ELSE <<>>)
         \o ReferencesOf(refs, file, n + 1)

\* C24: a search returns, for each file and each of its lines, one reference
\* per non-overlapping match on the line, with the 1-based number of the
\* line, the matched text and the line trimmed of surrounding whitespace;
\* the references of one file come in ascending line order.
C24_OneReferencePerMatch ==
    sop = "searched" =>
        /\ ~scanPanic
        /\ \A f \in DOMAIN scanTemplates :
              ReferencesOf(scanRefs, f, 1) =
                  LineReferences(Split(scanTemplates[f], sNewline), scanPath, 1)
        /\ \A k \in 1..Len(scanRefs) : scanRefs[k].File \in DOMAIN scanTemplates

-----------------------------------------------------------------------------
(* Properties of the field path of a reference *)

\* Leading spaces of a line, a tab counting as two.
RECURSIVE Indentation(_)
Indentation(line) ==
    IF line # <<>> /\ line[1] = " " THEN 1 + Indentation(Tail(line))
    ELSE IF line # <<>> /\ line[1] = "\t" THEN 2 + Indentation(Tail(line))
    ELSE 0

HasSeparator(line) == \E n \in 1..Len(line) : line[n] = ":"

\* The key of a line 'key: value': what stands before its first ':', without
\* the whitespace around it.
KeyOf(line) ==
    LET first == CHOOSE n \in 1..Len(line) :
                    line[n] = ":" /\ \A m \in 1..(n - 1) : line[m] # ":"
    IN TrimSpace(SubSeq(line, 1, first - 1))

Blank(line) == TrimSpace(line) = <<>>
Comment(line) == TrimSpace(line) # <<>> /\ TrimSpace(line)[1] = "#"

\* if, range, with, define, template
ControlKeywords == {<<"i", "f">>, <<"r", "a", "n", "g", "e">>, <<"w", "i", "t", "h">>, <<"d", "e", "f", "i", "n", "e">>, <<"t", "e", "m", "p", "l", "a", "t", "e">>}

\* Line i qualifies as a parent under the indentation reached so far.
Qualifies(lines, i, indent) ==
    /\ ~Blank(lines[i])
    /\ ~Comment(lines[i])
    /\ HasSeparator(lines[i])
    /\ Indentation(lines[i]) < indent

\* The backward walk from line i (1-based) up to the first line: the
\* numbers of the lines taken, outermost first. A qualifying line is taken
\* unless its key is a control-flow keyword, and a taken line lowers the
\* indentation to its own.
RECURSIVE Taken(_, _, _)
Taken(lines, i, indent) ==
    IF i < 1 THEN <<>>
    ELSE IF Qualifies(lines, i, indent) /\ KeyOf(lines[i]) \notin ControlKeywords
    THEN Append(Taken(lines, i - 1, Indentation(lines[i])), i)
    ELSE Taken(lines, i - 1, indent)

\* The field path of a match on line n.
FieldPath(lines, n) ==
    IF ~HasSeparator(lines[n]) THEN <<>>
    ELSE IF Contains(KeyOf(lines[n]), sDotValues) THEN <<>>
    ELSE LET taken == Taken(lines, n - 1, Indentation(lines[n]))
         IN <<".">> \o Join([k \in 1..Len(taken) |-> KeyOf(lines[taken[k]])]
                            \o <<KeyOf(lines[n])>>, <<".">>)

\* The references of a search to line n of file f.
ReferencesTo(f, n) ==
    { k \in 1..Len(scanRefs) : scanRefs[k].File = f /\ scanRefs[k].Line = n }

\* C25: the field path of a match on a line 'key: value' is '.' and the keys
\* joined with '.', outermost first and the line's own key last, of the
\* lines taken on the backward walk over the non-blank, non-comment lines
\* before it: each line with a ':' indented strictly less than the line
\* taken last (a line whose key is a control-flow keyword is passed over, as
\* C26 has it); 'name: {{ .Values.foo }}' alone gives '.name', and indented
\* under 'metadata:' it gives '.metadata.name'. The path is empty when the
\* line has no ':' or its key contains '.Values'.
C25_FieldPathFollowsIndentation ==
    sop = "searched" =>
        \A f \in DOMAIN scanTemplates :
            LET lines == Split(scanTemplates[f], sNewline)
            IN \A n \in 1..Len(lines) :
                  Occurs(lines[n], scanPath) =>
                     /\ ReferencesTo(f, n) # {}
                     /\ \A k \in ReferencesTo(f, n) :
                           scanRefs[k].ManifestPath = FieldPath(lines, n)

\* The keys before the last one of a field path.
ParentKeys(fieldPath) ==
    LET parts == Split(Tail(fieldPath), <<".">>)
    IN SubSeq(parts, 1, Len(parts) - 1)

\* The walk with every qualifying line taken, keyword or not: the numbers of
\* the lines that qualify when only ordinary keys lower the indentation.
RECURSIVE Qualifying(_, _, _)
Qualifying(lines, i, indent) ==
    IF i < 1 THEN {}
    ELSE IF Qualifies(lines, i, indent)
    THEN {i} \cup Qualifying(lines, i - 1,
                             IF KeyOf(lines[i]) \in ControlKeywords THEN indent
                             ELSE Indentation(lines[i]))
    ELSE Qualifying(lines, i - 1, indent)

\* C26: on the backward walk a qualifying line is skipped exactly when its
\* key is one of if, range, with, define, template; every qualifying line
\* with another key is prepended to the path and lowers the indentation to
\* its own.
C26_OnlyKeywordLinesAreSkipped ==
    sop = "searched" =>
        \A k \in 1..Len(scanRefs) :
            scanRefs[k].ManifestPath # <<>> =>
                LET lines == Split(scanTemplates[scanRefs[k].File], sNewline)
                    n == scanRefs[k].Line
                    qualifying == Qualifying(lines, n - 1, Indentation(lines[n]))
                    parents == ParentKeys(scanRefs[k].ManifestPath)
                IN /\ Len(parents) =
                         Cardinality({ i \in qualifying : KeyOf(lines[i]) \notin ControlKeywords })
                   /\ \A i \in qualifying :
                         KeyOf(lines[i]) \notin ControlKeywords <=>
                            \E j \in 1..Len(parents) : parents[j] = KeyOf(lines[i])

-----------------------------------------------------------------------------
(* Properties of the manifest map *)

\* The non-empty documents of a release manifest, in order.
RECURSIVE NonEmptyDocuments(_)
NonEmptyDocuments(documents) ==
    IF documents = <<>> THEN <<>>
    ELSE (IF TrimSpace(documents[1]) = <<>> THEN <<>> ELSE <<TrimSpace(documents[1])>>)
         \o NonEmptyDocuments(Tail(documents))

\* The non-empty documents of a release manifest, as a set.
DocumentSet(manifest) ==
    LET docs == NonEmptyDocuments(Split(manifest, sDocSeparator))
    IN { docs[n] : n \in 1..Len(docs) }

\* What a document is stored as: its mapping, or its text when it is not a
\* mapping.
Stored(doc) ==
    IF Unmarshal(doc).err THEN StrV(doc) ELSE MapV(Unmarshal(doc).docData)

\* The map holds every document of the manifest, one entry per document.
HoldsEveryDocument(manifestMap, manifest) ==
    LET docs == NonEmptyDocuments(Split(manifest, sDocSeparator))
    IN /\ Cardinality(DOMAIN manifestMap.m) = Len(docs)
       /\ \A n \in 1..Len(docs) :
             \E k \in DOMAIN manifestMap.m : manifestMap.m[k] = Stored(docs[n])

\* C29: the manifest map has one entry for every non-empty document of the
\* rendered manifest, no two documents under one key, and two releases that
\* differ in a document have manifest maps that Compare finds different.
C29_ManifestMapLosesNoDocument ==
    /\ rop \in {"original", "modified", "compared"} =>
          HoldsEveryDocument(originalManifest, manifestText)
    /\ rop \in {"modified", "compared"} =>
          HoldsEveryDocument(modifiedManifest, modifiedText)
    /\ rop = "compared" =>
          (DocumentSet(manifestText) # DocumentSet(modifiedText) => groupedDiffs # <<>>)

-----------------------------------------------------------------------------
(* Properties of the chart cache *)

Returned0(p) == dcall[p].pc = "done" /\ dcall[p].err = sNoError

\* C21: once DownloadChart(url, v) has succeeded and the directory it
\* returned is still there, a later DownloadChart(url, v) returns the same
\* directory and chart name and runs no pull.
C21_PresentChartIsNotPulledAgain ==
    \A p \in Procs :
        (Returned0(p) /\ dcall[p].prior # {}) =>
            /\ ~dcall[p].pulled
            /\ \A s \in dcall[p].prior :
                  dcall[p].dir = s.dir /\ dcall[p].name = s.name

\* C28: the directory DownloadChart(url, v) returns holds the chart pulled
\* from url, in version v; a chart of another URL with the same last path
\* segment and the same version is never handed out in its place.
C28_CacheIsKeyedByUrlAndVersion ==
    \A p \in Procs :
        Returned0(p) =>
            /\ StatOk(chartFs, dcall[p].dir, dcall[p].name)
            /\ chartFs[dcall[p].name].from = dcall[p].chartUrl
            /\ chartFs[dcall[p].name].version = ResolveVersion(dcall[p].chartVersion)

\* cache.yaml has an entry for the URL process p asked for, in the version
\* its call found.
HasEntryFor(p) ==
    \E n \in 1..Len(cacheYaml) :
        /\ cacheYaml[n].ChartURL = dcall[p].chartUrl
        /\ cacheYaml[n].Version = dcall[p].version

\* C30: when two DownloadChart calls for different (url, version) pairs have
\* run at the same time and both have returned success, cache.yaml has an
\* entry for each of the two pairs.
C30_NoCacheEntryIsLost ==
    \A p, q \in Procs :
        ( /\ p # q
          /\ Returned0(p) /\ Returned0(q)
          /\ dcall[p].concurrent /\ dcall[q].concurrent
          /\ <<dcall[p].chartUrl, dcall[p].chartVersion>>
                # <<dcall[q].chartUrl, dcall[q].chartVersion>> )
        => HasEntryFor(p) /\ HasEntryFor(q)

====
